---- MODULE Spec2Model ----
(***************************************************************************)
(* The `remap` transform (src/src/transforms/remap.rs): the build of an    *)
(* instance from a RemapConfig, the build-time projection of the output     *)
(* schema definitions (RemapConfig::outputs) and the per-event dispatch     *)
(* (Remap::transform) with its drop / reroute policy and the annotation of  *)
(* rerouted events.                                                         *)
(*                                                                          *)
(* The VRL compiler and runtime, the event representation and the Kind      *)
(* lattice are collaborators whose code is outside remap.rs; they are       *)
(* modelled by a small script language, nested values and a record of       *)
(* possibilities, as far as remap.rs uses them.                             *)
(***************************************************************************)
EXTENDS Integers, Sequences, FiniteSets, TLC

\* Bounds of the model.
MaxNotes == 2   \* notes carried by one fault
MaxFan == 2     \* elements of the array an inbound log carries in `events`
MaxCalls == 2   \* events one instance processes
MaxReplicas == 2 \* clones of the instance running side by side

DROPPED == "dropped"

-----------------------------------------------------------------------------
(* Values: value::Value restricted to bytes, integer, null, array, object. *)

EmptyMap == <<>>

Has(m, k) == k \in DOMAIN m

Put(m, k, v) == [f \in (DOMAIN m) \cup {k} |-> IF f = k THEN v ELSE m[f]]

Bytes(s) == [t |-> "bytes", s |-> s, a |-> <<>>, o |-> EmptyMap]

Integer(s) == [t |-> "integer", s |-> s, a |-> <<>>, o |-> EmptyMap]

\* A timestamp: the instant the text `s` denotes in the time zone `tz`.
Timestamp(s, tz) == [t |-> "timestamp", s |-> s \o " " \o tz, a |-> <<>>, o |-> EmptyMap]

Null == [t |-> "null", s |-> "", a |-> <<>>, o |-> EmptyMap]

Array(elems) == [t |-> "array", s |-> "", a |-> elems, o |-> EmptyMap]

Object(m) == [t |-> "object", s |-> "", a |-> <<>>, o |-> m]

\* Value::get: the value at a path of field names, <<>> (None) when absent.
RECURSIVE GetPath(_, _)
GetPath(v, path) ==
    IF path = <<>> THEN <<v>>
    ELSE IF v.t = "object" /\ Has(v.o, Head(path))
         THEN GetPath(v.o[Head(path)], Tail(path))
         ELSE <<>>

\* A query `.a.b` in a script: null when the path is absent.
Query(v, path) == LET g == GetPath(v, path) IN IF g = <<>> THEN Null ELSE g[1]

\* Value::insert: a value that is not an object on the way is replaced by one.
RECURSIVE InsertPath(_, _, _)
InsertPath(v, path, new) ==
    IF path = <<>> THEN new
    ELSE LET m == IF v.t = "object" THEN v.o ELSE EmptyMap
             child == IF Has(m, Head(path)) THEN m[Head(path)] ELSE Null
         IN  Object(Put(m, Head(path), InsertPath(child, Tail(path), new)))

-----------------------------------------------------------------------------
(* Events.  `value` is what a script reads and writes: the body of a log   *)
(* or a trace, the tags of a metric.  `metadata` is the event metadata      *)
(* value (the Vector namespace keeps its own data there), `schema` the      *)
(* schema definition the event metadata refers to.                          *)

LogEvent(m, ns, md) ==
    [kind |-> "Log", name |-> "", value |-> Object(m), ns |-> ns,
     metadata |-> Object(md), schema |-> "upstream"]

TraceEvent(m) ==
    [kind |-> "Trace", name |-> "", value |-> Object(m), ns |-> "Legacy",
     metadata |-> Object(EmptyMap), schema |-> "upstream"]

Metric(name, tags) ==
    [kind |-> "Metric", name |-> name, value |-> Object(tags), ns |-> "Legacy",
     metadata |-> Object(EmptyMap), schema |-> "upstream"]

\* log_schema().metadata_key() and log_schema().message_key()
metadata_key == "metadata"

message_key == "message"

\* The i-th element of the array in `events`: an object {message: "<i>"}.
Element(i) == Object(Put(EmptyMap, message_key, Bytes(ToString(i))))

ElementArray(n) == Array([i \in 1..n |-> Element(i)])

OneField(k, v) == Put(EmptyMap, k, v)

\* The inbound events of the model.
\* A log of the Vector namespace whose body is the decoded line itself.
RawLog ==
    [kind |-> "Log", name |-> "", value |-> Bytes("raw line"), ns |-> "Vector",
     metadata |-> Object(EmptyMap), schema |-> "upstream"]

Events ==
    { RawLog,
      LogEvent(OneField("hello", Bytes("world")), "Legacy", EmptyMap),
      LogEvent(Put(OneField("hello", Bytes("goodbye")), "sentinel", Bytes("bar")),
               "Legacy", EmptyMap),
      LogEvent(Put(OneField("hello", Integer("42")), metadata_key,
                   Object(OneField("source", Bytes("file")))), "Legacy", EmptyMap),
      LogEvent(Put(OneField("hello", Bytes("goodbye")), metadata_key, Bytes("raw")),
               "Legacy", EmptyMap),
      LogEvent(OneField("hello", Bytes("goodbye")), "Vector",
               OneField("vector", Object(OneField("source_type", Bytes("file"))))),
      TraceEvent(Put(OneField("hello", Bytes("goodbye")), "sentinel", Bytes("bar"))),
      TraceEvent(Put(OneField("hello", Integer("42")), "events", ElementArray(1))),
      Metric("counter", OneField("hello", Bytes("world"))),
      Metric("counter", Put(OneField("hello", Bytes("goodbye")), "sentinel", Bytes("bar"))),
      Metric("counter", OneField("not_hello", Bytes("oops"))),
      Metric("counter", Put(OneField("hello", Bytes("goodbye")),
                            metadata_key \o ".dropped.reason", Bytes("earlier"))) }
    \cup { LogEvent(Put(OneField("hello", Bytes("world")), "events", ElementArray(n)),
                    "Legacy", EmptyMap) : n \in 0..MaxFan }

-----------------------------------------------------------------------------
(* Scripts.  A statement stands for the pair of branches a script such as   *)
(* the one of tests::check_remap_branching has (`if exists(.tags) { .tags.p *)
(* ... } else { .p ... }`): its paths are relative to the script-visible    *)
(* value of the event (body or tags).                                       *)
(*   set     .p = "c"                                                       *)
(*   copy    .p = .q                                                        *)
(*   root    . = .q                    (logs and traces only)               *)
(*   let     if exists(.q) { c = .q }  (c a local variable)                 *)
(*   use     .p = c                                                         *)
(*   int     .p = int!(.q)                                                  *)
(*   string  string!(.q)                                                    *)
(*   abortif if .q == "c" { abort }                                         *)
(*   abort   abort                                                          *)
(*   meaning set_semantic_meaning(.p, "c")                                  *)
(*   timestamp .p = parse_timestamp!(.q, format)  (no zone in the format)   *)

Stmt(op, p, q, c) == [op |-> op, p |-> p, q |-> q, c |-> c, notes |-> <<>>]

\* A statement that can fail, with the notes its fault carries.
Failing(op, p, q, c, notes) == [op |-> op, p |-> p, q |-> q, c |-> c, notes |-> notes]

\* The notes a fault may carry: user-authored error messages and others.
UserErrorMessage(text) == [user |-> TRUE, text |-> text]

OtherNote(text) == [user |-> FALSE, text |-> text]

Notes ==
    { UserErrorMessage("custom message here"), UserErrorMessage("second custom message"),
      OtherNote("see language documentation") }

NoteSeqs == UNION { [1..n -> Notes] : n \in 0..MaxNotes }

NoopScript == <<>>

LocalScript ==
    << Stmt("let", <<>>, <<"sentinel">>, "x"),
       Stmt("use", <<"foo">>, <<>>, "x") >>

ErrorScript ==
    << Stmt("set", <<"foo">>, <<>>, "foo"),
       Failing("int", <<"not_an_int">>, <<"hello">>, "", <<>>),
       Stmt("set", <<"baz">>, <<>>, "12") >>

AbortScript ==
    << Stmt("set", <<"foo">>, <<>>, "foo"),
       Failing("abortif", <<>>, <<"hello">>, "goodbye",
               <<UserErrorMessage("custom message here")>>),
       Stmt("set", <<"baz">>, <<>>, "12") >>

BranchingScript ==
    << Stmt("set", <<"foo">>, <<>>, "bar"),
       Stmt("let", <<>>, <<"sentinel">>, "x"),
       Failing("string", <<>>, <<"hello">>, "", <<OtherNote("see language documentation")>>),
       Failing("abortif", <<>>, <<"hello">>, "goodbye", <<>>) >>

MeaningScript ==
    << Stmt("set", <<"foo">>, <<>>, "bar"),
       Stmt("meaning", <<"foo">>, <<>>, "service") >>

FanoutScript == << Stmt("root", <<>>, <<"events">>, "") >>

OverwriteScript ==
    << Stmt("set", <<"hello">>, <<>>, "changed"),
       Stmt("set", <<metadata_key, "dropped">>, <<>>, "by script"),
       Stmt("root", <<>>, <<"events">>, ""),
       Failing("int", <<"n">>, <<"hello">>, "",
               <<UserErrorMessage("custom message here"),
                 OtherNote("see language documentation")>>) >>

\* The script of tests::test_transform_abort, which only aborts.
AbortOnlyScript == << Stmt("abort", <<>>, <<>>, "") >>

\* .timestamp = parse_timestamp!(.timestamp, format: "%Y-%m-%d %H:%M:%S")
TimestampScript ==
    << Failing("timestamp", <<"timestamp">>, <<"timestamp">>, "", <<>>) >>

\* `assert_eq!`-like scripts whose fault carries the given notes.
AssertScript(notes) ==
    << Stmt("set", <<"foo">>, <<>>, "bar"),
       Failing("int", <<"n">>, <<"hello">>, "", notes) >>

\* A script text and whether the compiler accepts it.
Script(stmts, compiles) == [stmts |-> stmts, compiles |-> compiles]

Scripts ==
    { Script(NoopScript, TRUE), Script(LocalScript, TRUE), Script(ErrorScript, TRUE),
      Script(AbortScript, TRUE), Script(BranchingScript, TRUE),
      Script(FanoutScript, TRUE), Script(OverwriteScript, TRUE),
      Script(MeaningScript, TRUE),
      Script(ErrorScript, FALSE) }

\* The scripts a file named by `file` may hold.
FileScripts == { Script(BranchingScript, TRUE), Script(ErrorScript, FALSE) }

\* The scripts that fail on some events and succeed on others.
FailingScripts == { Script(ErrorScript, TRUE), Script(BranchingScript, TRUE) }

NoteScripts == { Script(AssertScript(notes), TRUE) : notes \in NoteSeqs }

\* Program::info(): can a statement raise a runtime error, can one abort.
ProgramInfo(stmts) ==
    [fallible |-> \E i \in 1..Len(stmts) : stmts[i].op \in {"int", "string", "timestamp"},
     abortable |-> \E i \in 1..Len(stmts) : stmts[i].op \in {"abortif", "abort"}]

\* One statement on the state [target, locals, result, message] of a run.
Step(s, st, kind, timezone) ==
    CASE s.op = "set" ->
           [st EXCEPT !.target = InsertPath(@, s.p, Bytes(s.c))]
      [] s.op = "copy" ->
           [st EXCEPT !.target = InsertPath(@, s.p, Query(st.target, s.q))]
      [] s.op = "root" ->
           IF kind = "Metric" THEN st
           ELSE [st EXCEPT !.target = Query(st.target, s.q)]
      [] s.op = "let" ->
           IF GetPath(st.target, s.q) = <<>> THEN st
           ELSE [st EXCEPT !.locals = Put(@, s.c, Query(st.target, s.q))]
      [] s.op = "use" ->
           [st EXCEPT !.target =
               InsertPath(@, s.p, IF Has(st.locals, s.c) THEN st.locals[s.c] ELSE Null)]
      [] s.op = "int" ->
           IF Query(st.target, s.q).t = "integer"
           THEN [st EXCEPT !.target = InsertPath(@, s.p, Query(st.target, s.q))]
           ELSE [st EXCEPT !.result = "error", !.message = "function call error",
                           !.notes = s.notes]
      [] s.op = "string" ->
           IF Query(st.target, s.q).t = "bytes" THEN st
           ELSE [st EXCEPT !.result = "error", !.message = "function call error",
                           !.notes = s.notes]
      [] s.op = "abortif" ->
           IF Query(st.target, s.q) = Bytes(s.c)
           THEN [st EXCEPT !.result = "abort", !.message = "aborted", !.notes = s.notes]
           ELSE st
      [] s.op = "abort" ->
           [st EXCEPT !.result = "abort", !.message = "aborted", !.notes = s.notes]
      [] s.op = "meaning" -> st
      [] s.op = "timestamp" ->
           IF Query(st.target, s.q).t = "bytes"
           THEN [st EXCEPT !.target =
                    InsertPath(@, s.p, Timestamp(Query(st.target, s.q).s, timezone))]
           ELSE [st EXCEPT !.result = "error", !.message = "function call error",
                           !.notes = s.notes]

RECURSIVE Exec(_, _, _, _, _)
Exec(stmts, i, st, kind, timezone) ==
    IF i > Len(stmts) \/ st.result # "ok" THEN st
    ELSE Exec(stmts, i + 1, Step(stmts[i], st, kind, timezone), kind, timezone)

\* Runtime::resolve: runs the program on the target with the runtime's state.
Resolve(locals, target, stmts, kind, timezone) ==
    Exec(stmts, 1, [target |-> target, locals |-> locals, result |-> "ok",
                    message |-> "", notes |-> <<>>], kind, timezone)

\* AstRunner::run: resolve, then clear the runtime, then hand back the result.
AstRunnerRunNoClear(locals, target, stmts, kind, timezone) ==
    LET r == Resolve(locals, target, stmts, kind, timezone)
    IN  [result |-> r.result, error |-> [message |-> r.message, notes |-> r.notes],
         target |-> r.target, runtime |-> r.locals]

\* The runner clearing the runtime before the resolve instead of after it.
AstRunnerRunClearFirst(locals, target, stmts, kind, timezone) ==
    LET r == Resolve(EmptyMap, target, stmts, kind, timezone)
    IN  [result |-> r.result, error |-> [message |-> r.message, notes |-> r.notes],
         target |-> r.target, runtime |-> r.locals]

\* The runner returning a fault before it clears the runtime.
AstRunnerRunClearOnOk(locals, target, stmts, kind, timezone) ==
    LET r == Resolve(locals, target, stmts, kind, timezone)
    IN  [result |-> r.result, error |-> [message |-> r.message, notes |-> r.notes],
         target |-> r.target,
         runtime |-> IF r.result = "ok" THEN EmptyMap ELSE r.locals]

AstRunnerRun(locals, target, stmts, kind, timezone) ==
    LET r == Resolve(locals, target, stmts, kind, timezone)
    IN  [result |-> r.result, error |-> [message |-> r.message, notes |-> r.notes],
         target |-> r.target, runtime |-> EmptyMap]

\* A target that starts empty instead of holding the event.
VrlTargetNewEmpty(event) == Object(EmptyMap)

\* VrlTarget::new: the value the script works on.
VrlTargetNew(event) == event.value

WrapMessage(event, v) == [event EXCEPT !.value = Object(OneField(message_key, v))]

\* into_events handing every result back as logs.
IntoEventsAsLogs(event, v) ==
    IF v.t = "object" THEN << [event EXCEPT !.value = v, !.kind = "Log"] >>
    ELSE IF v.t = "array"
         THEN [i \in 1..Len(v.a) |->
                 IF v.a[i].t = "object" THEN [event EXCEPT !.value = v.a[i], !.kind = "Log"]
                 ELSE [WrapMessage(event, v.a[i]) EXCEPT !.kind = "Log"]]
         ELSE << [WrapMessage(event, v) EXCEPT !.kind = "Log"] >>

\* VrlTarget::into_events: one event, or one per element of an array (logs, traces).
IntoEvents(event, v) ==
    IF event.kind = "Metric"
    THEN << [event EXCEPT !.value = IF v.t = "object" THEN v ELSE @] >>
    ELSE IF v.t = "object" THEN << [event EXCEPT !.value = v] >>
    ELSE IF v.t = "array"
         THEN [i \in 1..Len(v.a) |->
                 IF v.a[i].t = "object" THEN [event EXCEPT !.value = v.a[i]]
                 ELSE WrapMessage(event, v.a[i])]
         ELSE << WrapMessage(event, v) >>

-----------------------------------------------------------------------------
(* Configuration, build context and the instance.                           *)

VARIABLES
    config,      \* the RemapConfig
    context,     \* the TransformContext of the build
    built,       \* "no", "ok" or "err": the outcome of Remap::new_ast
    buildError,  \* the error of a failed build
    compileAttempted, \* whether the build handed a source text to compile_vrl
    remap,       \* <<>> or <<the Remap instance>>
    runtime,     \* the scratch state (local variables) of the instance's runner
    inbound,     \* <<>> or <<the event of the last call of transform>>
    result,      \* how the script run of the last call ended
    fault,       \* <<>> or <<the fault the run ended with>>
    copied,      \* whether the last call preserved the inbound event
    primary,     \* what the last call pushed to the primary output
    dropped,     \* what the last call pushed to the `dropped` output
    emitted,     \* the internal events the last call emitted
    warned,      \* whether the last call logged the unexpected-error warning
    calls,       \* how many events the instance has processed
    previous,    \* the outcome of the call before the last one, "none" if there is none
    schema,      \* <<>> or the definition the schema helpers are applied to, with
                 \* what each of them returned
    ports,       \* <<>> or <<the ports RemapConfig::outputs returned>>
    replicas     \* the clones of the instance that run side by side, and their runtimes

vars == << config, context, built, buildError, compileAttempted, remap, runtime, inbound,
           result, fault, copied, primary, dropped, emitted, warned, calls, previous,
           schema, ports, replicas >>

\* `source` is <<>> or <<the script>>; `file` is <<>> or <<the script the file holds>>.
ConfigsOver(scripts) ==
    { [source |-> sf[1], file |-> sf[2], timezone |-> <<>>, drop_on_error |-> de,
       drop_on_abort |-> da, reroute_dropped |-> rd] :
        sf \in { <<<<>>, <<>>>> }
               \cup { <<<<s>>, <<>>>> : s \in scripts }
               \cup { <<<<>>, <<s>>>> : s \in FileScripts }
               \cup { <<<<s>>, <<f>>>> : s \in FileScripts, f \in FileScripts },
        de \in BOOLEAN, da \in BOOLEAN, rd \in BOOLEAN }

\* The key of the primary port (None) in TransformContext::schema_definitions.
PrimaryPort == ""

Contexts ==
    { [key |-> <<"remapper">>, timezone |-> "Local",
       schema_definitions |-> [port \in {PrimaryPort, DROPPED} |->
            IF port = DROPPED THEN <<"test_dropped">> ELSE <<"test_default">>]],
      [key |-> <<>>, timezone |-> "Local",
       schema_definitions |-> [port \in {PrimaryPort} |-> <<>>]] }

\* BuildError::SourceAndOrFile (the display text quotes source and file in backticks).
SourceAndOrFile == "must provide exactly one of source or file configuration"

\* compile_vrl: the program, or the diagnostics of a script that does not compile.
CompileVrl(script) ==
    IF script.compiles
    THEN [ok |-> TRUE, error |-> "", program |-> <<script.stmts>>, compiled |-> TRUE]
    ELSE [ok |-> FALSE, error |-> "compile diagnostics", program |-> <<>>,
          compiled |-> TRUE]

BuildErr(e) == [ok |-> FALSE, error |-> e, program |-> <<>>, compiled |-> FALSE]

\* compile_vrl_program with a match that lets `source` win over `file`.
CompileVrlProgramPreferSource(cfg, fileRead) ==
    IF cfg.source # <<>> THEN CompileVrl(cfg.source[1])
    ELSE IF cfg.file # <<>>
         THEN IF fileRead = "ok" THEN CompileVrl(cfg.file[1])
              ELSE BuildErr("Could not open vrl program")
         ELSE BuildErr(SourceAndOrFile)

\* RemapConfig::compile_vrl_program; fileRead is what reading `file` gives.
CompileVrlProgram(cfg, fileRead) ==
    IF cfg.source # <<>> /\ cfg.file = <<>> THEN CompileVrl(cfg.source[1])
    ELSE IF cfg.source = <<>> /\ cfg.file # <<>>
         THEN IF fileRead = "ok" THEN CompileVrl(cfg.file[1])
              ELSE IF fileRead = "open_failed"
                   THEN BuildErr("Could not open vrl program")
                   ELSE BuildErr("Could not read vrl program")
         ELSE BuildErr(SourceAndOrFile)

FirstOrAny(defs) == IF defs = <<>> THEN "any" ELSE defs[1]

\* Remap::new taking the time zone of the build context, whatever the config says.
RemapNewGlobalTimezone(cfg, ctx, stmts) ==
    [component_key |-> ctx.key,
     program |-> stmts,
     info |-> ProgramInfo(stmts),
     timezone |-> ctx.timezone,
     drop_on_error |-> cfg.drop_on_error,
     drop_on_abort |-> cfg.drop_on_abort,
     reroute_dropped |-> cfg.reroute_dropped,
     default_schema_definition |-> FirstOrAny(ctx.schema_definitions[PrimaryPort]),
     dropped_schema_definition |->
        FirstOrAny(IF DROPPED \in DOMAIN ctx.schema_definitions
                   THEN ctx.schema_definitions[DROPPED]
                   ELSE ctx.schema_definitions[PrimaryPort])]

\* Remap::new
RemapNew(cfg, ctx, stmts) ==
    [component_key |-> ctx.key,
     program |-> stmts,
     info |-> ProgramInfo(stmts),
     timezone |-> IF cfg.timezone # <<>> THEN cfg.timezone[1] ELSE ctx.timezone,
     drop_on_error |-> cfg.drop_on_error,
     drop_on_abort |-> cfg.drop_on_abort,
     reroute_dropped |-> cfg.reroute_dropped,
     default_schema_definition |-> FirstOrAny(ctx.schema_definitions[PrimaryPort]),
     dropped_schema_definition |->
        FirstOrAny(IF DROPPED \in DOMAIN ctx.schema_definitions
                   THEN ctx.schema_definitions[DROPPED]
                   ELSE ctx.schema_definitions[PrimaryPort])]

-----------------------------------------------------------------------------
(* Kinds and schema definitions.  A Kind is the set of primitive shapes a   *)
(* value may have, and the collections it may be as an object and as an     *)
(* array.  A collection has kinds for its known fields and one for every    *)
(* other field: exact, or infinite (anything, to any depth).                *)

Scalars == {"bytes", "integer", "float", "boolean", "timestamp", "regex", "null"}

KNever == [prims |-> {}, obj |-> <<>>, arr |-> <<>>]

KPrim(p) == [prims |-> {p}, obj |-> <<>>, arr |-> <<>>]

KBytes == KPrim("bytes")

KInteger == KPrim("integer")

KNull == KPrim("null")

KUndefined == KPrim("undefined")

UExact(k) == [infinite |-> FALSE, exact |-> <<k>>]

UAny == [infinite |-> TRUE, exact |-> <<>>]

Collection(known, unknown) == [known |-> known, unknown |-> unknown]

\* Collection::from(BTreeMap): no field besides the known ones.
CollectionFrom(known) == Collection(known, UExact(KUndefined))

CollectionAny == Collection(EmptyMap, UAny)

KObject(c) == [prims |-> {}, obj |-> <<c>>, arr |-> <<>>]

KArray(c) == [prims |-> {}, obj |-> <<>>, arr |-> <<c>>]

KAnyObject == KObject(CollectionAny)

\* Kind::any(): every state, `undefined` included.
KAny == [prims |-> Scalars \cup {"undefined"}, obj |-> <<CollectionAny>>,
         arr |-> <<CollectionAny>>]

IsNever(k) == k = KNever

UnknownKind(c) == IF c.unknown.infinite THEN KAny ELSE c.unknown.exact[1]

WithoutUndefined(k) == [k EXCEPT !.prims = @ \ {"undefined"}]

\* Kind::union: merge with CollisionStrategy::Union.  A field known on one side
\* only is merged with the kind the other side has for its unknown fields.
RECURSIVE KUnion(_, _)
RECURSIVE CollectionUnion(_, _)
KUnion(a, b) ==
    [prims |-> a.prims \cup b.prims,
     obj |-> IF a.obj = <<>> THEN b.obj
             ELSE IF b.obj = <<>> THEN a.obj
             ELSE <<CollectionUnion(a.obj[1], b.obj[1])>>,
     arr |-> IF a.arr = <<>> THEN b.arr
             ELSE IF b.arr = <<>> THEN a.arr
             ELSE <<CollectionUnion(a.arr[1], b.arr[1])>>]

CollectionUnion(c, d) ==
    Collection(
        [f \in (DOMAIN c.known) \cup (DOMAIN d.known) |->
            IF Has(c.known, f) /\ Has(d.known, f) THEN KUnion(c.known[f], d.known[f])
            ELSE IF Has(c.known, f) THEN KUnion(c.known[f], UnknownKind(d))
            ELSE KUnion(UnknownKind(c), d.known[f])],
        IF c.unknown.infinite \/ d.unknown.infinite THEN UAny
        ELSE UExact(KUnion(c.unknown.exact[1], d.unknown.exact[1])))

\* Collection::reduced_kind: the union of the kinds of the defined elements.
RECURSIVE UnionOver(_, _)
UnionOver(known, keys) ==
    IF keys = {} THEN KNever
    ELSE LET f == CHOOSE x \in keys : TRUE
         IN  KUnion(known[f], UnionOver(known, keys \ {f}))

ReducedKind(c) ==
    KUnion(UnionOver(c.known, DOMAIN c.known), WithoutUndefined(UnknownKind(c)))

RemoveArray(k) == [k EXCEPT !.arr = <<>>]

RemoveObject(k) == [k EXCEPT !.obj = <<>>]

RemovePrim(k, p) == [k EXCEPT !.prims = @ \ {p}]

\* Kind::at_path: the kind of the value at a path of the event.
RECURSIVE KAt(_, _)
KAt(k, path) ==
    IF path = <<>> THEN k
    ELSE LET other == IF k.prims # {} \/ k.arr # <<>> \/ k.obj = <<>>
                      THEN KUndefined ELSE KNever
         IN  IF k.obj = <<>> THEN other
             ELSE LET c == k.obj[1]
                      child == IF Has(c.known, Head(path)) THEN c.known[Head(path)]
                               ELSE KUnion(UnknownKind(c), KUndefined)
                  IN  KUnion(KAt(child, Tail(path)), other)

\* Kind::insert: the value becomes an object that has `new` at the path.
RECURSIVE KInsert(_, _, _)
KInsert(k, path, new) ==
    IF path = <<>> THEN new
    ELSE LET c == IF k.obj = <<>> THEN CollectionFrom(EmptyMap) ELSE k.obj[1]
             child == IF Has(c.known, Head(path)) THEN c.known[Head(path)] ELSE KNever
         IN  KObject(Collection(Put(c.known, Head(path), KInsert(child, Tail(path), new)),
                                c.unknown))

\* A schema definition.  `meanings` maps a meaning to <<path>>, or to <<>> when
\* merged definitions disagree on it.
Definition(event_kind, metadata_kind, log_namespaces, meanings) ==
    [event_kind |-> event_kind, metadata_kind |-> metadata_kind,
     log_namespaces |-> log_namespaces, meanings |-> meanings]

\* Definition::new_with_default_metadata
NewWithDefaultMetadata(event_kind, log_namespaces) ==
    Definition(event_kind, KAnyObject, log_namespaces, EmptyMap)

\* Definition::any
DefinitionAny == Definition(KAny, KAny, {"Legacy", "Vector"}, EmptyMap)

\* Definition::merge
DefinitionMerge(a, b) ==
    Definition(KUnion(a.event_kind, b.event_kind),
               KUnion(a.metadata_kind, b.metadata_kind),
               a.log_namespaces \cup b.log_namespaces,
               [m \in (DOMAIN a.meanings) \cup (DOMAIN b.meanings) |->
                   IF Has(a.meanings, m) /\ Has(b.meanings, m)
                   THEN IF a.meanings[m] = b.meanings[m] THEN a.meanings[m] ELSE <<>>
                   ELSE IF Has(a.meanings, m) THEN a.meanings[m] ELSE b.meanings[m]])

\* Kind::contains_any_defined
ContainsAnyDefined(k) == k.prims \ {"undefined"} # {} \/ k.obj # <<>> \/ k.arr # <<>>

\* Definition::try_with_meaning: refused when the path has no defined kind.
TryWithMeaning(def, path, id) ==
    IF ContainsAnyDefined(KAt(def.event_kind, path))
    THEN [def EXCEPT !.meanings = Put(@, id, <<path>>)]
    ELSE def

\* Definition::with_event_field and Definition::with_metadata_field
WithEventField(def, path, k, meaning) ==
    [def EXCEPT !.event_kind = KInsert(@, path, k),
                !.meanings = IF meaning = <<>> THEN @ ELSE Put(@, meaning[1], <<path>>)]

WithMetadataField(def, path, k) == [def EXCEPT !.metadata_kind = KInsert(@, path, k)]

\* merge_array_definitions leaving the array possibility in place.
MergeArrayDefinitionsKeepArray(def) ==
    IF def.event_kind.arr # <<>>
    THEN [def EXCEPT !.event_kind = KUnion(@, ReducedKind(def.event_kind.arr[1]))]
    ELSE def

\* merge_array_definitions keeping the elements and nothing else.
MergeArrayDefinitionsElementsOnly(def) ==
    IF def.event_kind.arr # <<>>
    THEN [def EXCEPT !.event_kind = ReducedKind(def.event_kind.arr[1])]
    ELSE def

\* merge_array_definitions merging the elements as if an element could also be
\* an object without fields.
MergeArrayDefinitionsOptional(def) ==
    IF def.event_kind.arr # <<>>
    THEN [def EXCEPT !.event_kind =
            KUnion(RemoveArray(@),
                   KUnion(ReducedKind(def.event_kind.arr[1]),
                          KObject(CollectionFrom(EmptyMap))))]
    ELSE def

\* merge_array_definitions
MergeArrayDefinitions(def) ==
    IF def.event_kind.arr # <<>>
    THEN [def EXCEPT !.event_kind =
            KUnion(RemoveArray(@), ReducedKind(def.event_kind.arr[1]))]
    ELSE def

\* move_field_definitions_into_message inserting the residual at the message
\* key, over what the object had there.
MoveFieldDefinitionsIntoMessageOverwrite(def) ==
    LET message == RemoveArray(RemoveObject(def.event_kind))
    IN  IF ~IsNever(message)
        THEN [def EXCEPT !.event_kind =
                KInsert([@ EXCEPT !.prims = @ \ Scalars], <<message_key>>, message)]
        ELSE def

\* move_field_definitions_into_message
MoveFieldDefinitionsIntoMessage(def) ==
    LET message == RemoveArray(RemoveObject(def.event_kind))
    IN  IF ~IsNever(message)
        THEN [def EXCEPT !.event_kind =
                KUnion([@ EXCEPT !.prims = @ \ Scalars],
                       KObject(CollectionFrom(OneField(message_key, message))))]
        ELSE def

\* The final type state of a compiled script: the compiler's view of the event
\* kind after the script, statement by statement, and the meanings it sets.
ReadKind(k, path) ==
    LET at == KAt(k, path)
    IN  IF "undefined" \in at.prims THEN KUnion(WithoutUndefined(at), KNull) ELSE at

\* The type step that takes the state after an abort to be unreachable.
TypeStepAbortNever(s, ts) ==
    IF s.op \in {"abort", "abortif"} THEN [ts EXCEPT !.kind = KNever] ELSE ts

TypeStep(s, ts) ==
    CASE s.op = "set" -> [ts EXCEPT !.kind = KInsert(@, s.p, KBytes)]
      [] s.op = "copy" -> [ts EXCEPT !.kind = KInsert(@, s.p, ReadKind(ts.kind, s.q))]
      [] s.op = "root" -> [ts EXCEPT !.kind = ReadKind(ts.kind, s.q)]
      [] s.op = "let" -> [ts EXCEPT !.locals = Put(@, s.c, ReadKind(ts.kind, s.q))]
      [] s.op = "use" ->
           [ts EXCEPT !.kind = KInsert(@, s.p, IF Has(ts.locals, s.c) THEN ts.locals[s.c]
                                                ELSE KNull)]
      [] s.op = "int" -> [ts EXCEPT !.kind = KInsert(@, s.p, KInteger)]
      [] s.op = "timestamp" -> [ts EXCEPT !.kind = KInsert(@, s.p, KPrim("timestamp"))]
      [] s.op \in {"string", "abortif", "abort"} -> ts
      [] s.op = "meaning" -> [ts EXCEPT !.meanings = Append(@, [id |-> s.c, path |-> s.p])]

RECURSIVE TypeExec(_, _, _)
TypeExec(stmts, i, ts) ==
    IF i > Len(stmts) THEN ts ELSE TypeExec(stmts, i + 1, TypeStep(stmts[i], ts))

FinalTypeState(stmts, merged) ==
    LET ts == TypeExec(stmts, 1, [kind |-> merged.event_kind, locals |-> EmptyMap,
                                  meanings |-> <<>>])
    IN  [target_kind |-> ts.kind, metadata_kind |-> merged.metadata_kind,
         meanings |-> ts.meanings]

\* The fixed shape of the diagnostic payload in the dropped definition.
DroppedPayloadKind ==
    KObject(CollectionFrom([f \in {"reason", "message", "component_id", "component_type",
                                   "component_kind"} |-> KBytes]))

RECURSIVE MergeAll(_, _)
MergeAll(defs, i) ==
    IF i = Len(defs) THEN defs[i] ELSE DefinitionMerge(defs[i], MergeAll(defs, i + 1))

\* Definition::with_meaning over the meanings the script sets, in order; a later
\* one replaces an earlier one of the same id.
RECURSIVE WithMeanings(_, _, _)
WithMeanings(def, meaning, i) ==
    IF i > Len(meaning) THEN def
    ELSE WithMeanings([def EXCEPT !.meanings = Put(@, meaning[i].id, <<meaning[i].path>>)],
                      meaning, i + 1)

\* Definition::with_meaning panics on a path that has no defined kind.
MeaningPanics(compiled) ==
    /\ compiled # <<>>
    /\ \E i \in 1..Len(compiled[1].meanings) :
          ~ContainsAnyDefined(KAt(compiled[1].target_kind, compiled[1].meanings[i].path))

DefaultDefinitionAny(compiled, input) ==
    NewWithDefaultMetadata(KAny, input.log_namespaces)

\* The primary definition copying every meaning of the input, valid or not.
DefaultDefinitionAllMeanings(compiled, input) ==
    IF compiled # <<>>
    THEN WithMeanings(Definition(compiled[1].target_kind, compiled[1].metadata_kind,
                                 input.log_namespaces, input.meanings),
                      compiled[1].meanings, 1)
    ELSE NewWithDefaultMetadata(KNever, input.log_namespaces)

\* The primary definition in which a meaning of the input wins over the script's.
DefaultDefinitionInputWins(compiled, input) ==
    IF compiled # <<>>
    THEN LET new_type_def == Definition(compiled[1].target_kind, compiled[1].metadata_kind,
                                        input.log_namespaces, EmptyMap)
             scripted == WithMeanings(new_type_def, compiled[1].meanings, 1)
             kept == { x \in DOMAIN input.meanings :
                          /\ input.meanings[x] # <<>>
                          /\ ContainsAnyDefined(KAt(compiled[1].target_kind,
                                                    input.meanings[x][1])) }
         IN  [scripted EXCEPT !.meanings =
                 [m \in (DOMAIN @) \cup kept |->
                     IF m \in kept THEN input.meanings[m] ELSE @[m]]]
    ELSE NewWithDefaultMetadata(KNever, input.log_namespaces)

\* The primary definition handing the input definition on as it came.
DefaultDefinitionOfInput(compiled, input) == input

\* The primary definition of one input branch: the final type state, the input's
\* meanings that still point at a field, then the meanings the script sets.
DefaultDefinition(compiled, input) ==
    IF compiled # <<>>
    THEN LET new_type_def == Definition(compiled[1].target_kind, compiled[1].metadata_kind,
                                        input.log_namespaces, EmptyMap)
             ids == DOMAIN input.meanings
             inherited ==
                [new_type_def EXCEPT !.meanings =
                    [m \in { x \in ids : /\ input.meanings[x] # <<>>
                                         /\ ContainsAnyDefined(KAt(compiled[1].target_kind,
                                                                   input.meanings[x][1])) }
                       |-> input.meanings[m]]]
         IN  WithMeanings(inherited, compiled[1].meanings, 1)
    ELSE NewWithDefaultMetadata(KNever, input.log_namespaces)

\* The dropped definition declaring the payload where annotate_dropped writes it
\* for a legacy log, under `dropped`, and nothing for the Vector namespace.
DroppedDefinitionNested(input) ==
    LET never == NewWithDefaultMetadata(KNever, input.log_namespaces)
    IN  IF "Legacy" \in input.log_namespaces
        THEN DefinitionMerge(never,
                WithEventField(input, <<metadata_key, "dropped">>, DroppedPayloadKind,
                               <<"metadata">>))
        ELSE never

\* The dropped definition of one input branch.
DroppedDefinition(input) ==
    LET never == NewWithDefaultMetadata(KNever, input.log_namespaces)
        legacy == IF "Legacy" \in input.log_namespaces
                  THEN DefinitionMerge(never,
                          WithEventField(input, <<metadata_key>>, DroppedPayloadKind,
                                         <<"metadata">>))
                  ELSE never
    IN  IF "Vector" \in input.log_namespaces
        THEN DefinitionMerge(legacy,
                WithMetadataField(
                  WithMetadataField(
                    WithMetadataField(
                      WithMetadataField(
                        WithMetadataField(input, <<"reason">>, KBytes),
                        <<"message">>, KBytes),
                      <<"component_id">>, KBytes),
                    <<"component_type">>, KBytes),
                  <<"component_kind">>, KBytes))
        ELSE legacy

\* The two helpers in the other order: promotion, then flattening.
PromoteThenFlatten(def) == MergeArrayDefinitions(MoveFieldDefinitionsIntoMessage(def))

\* What outputs() does to a definition before it inserts it: flattening first.
FlattenThenPromote(def) == MoveFieldDefinitionsIntoMessage(MergeArrayDefinitions(def))

TransformOutput(port, definitions) ==
    [port |-> port, data_types |-> {"log", "metric", "trace"}, definitions |-> definitions]

\* The ports returned at the end of outputs().
OutputPortsBoth(cfg, default_definitions, dropped_definitions) ==
    << TransformOutput(PrimaryPort, default_definitions),
       TransformOutput(DROPPED, dropped_definitions) >>

OutputPorts(cfg, default_definitions, dropped_definitions) ==
    IF cfg.reroute_dropped
    THEN << TransformOutput(PrimaryPort, default_definitions),
            TransformOutput(DROPPED, dropped_definitions) >>
    ELSE << TransformOutput(PrimaryPort, default_definitions) >>

\* RemapConfig::outputs on the input definitions, a sequence of [id, definition].
Outputs(cfg, input_definitions, fileRead) ==
    LET merged_definition ==
            IF input_definitions = <<>> THEN DefinitionAny
            ELSE MergeAll([i \in 1..Len(input_definitions) |->
                              input_definitions[i].definition], 1)
        c == CompileVrlProgram(cfg, fileRead)
        compiled == IF c.ok THEN <<FinalTypeState(c.program[1], merged_definition)>>
                    ELSE <<>>
        ids == { input_definitions[i].id : i \in 1..Len(input_definitions) }
        \* a later entry with the same id replaces an earlier one (HashMap::insert)
        last(id) == CHOOSE i \in 1..Len(input_definitions) :
                        /\ input_definitions[i].id = id
                        /\ \A j \in (i + 1)..Len(input_definitions) :
                               input_definitions[j].id # id
        default_definitions ==
            [id \in ids |-> FlattenThenPromote(
                DefaultDefinition(compiled, input_definitions[last(id)].definition))]
        dropped_definitions ==
            [id \in ids |-> FlattenThenPromote(
                DroppedDefinition(input_definitions[last(id)].definition))]
    IN  [panicked |-> ids # {} /\ MeaningPanics(compiled),
         ports |-> IF ids # {} /\ MeaningPanics(compiled) THEN <<>>
                   ELSE OutputPorts(cfg, default_definitions, dropped_definitions)]

\* The input definitions of the model.
InputDefinition(id, def) == [id |-> id, definition |-> def]

LegacyInput ==
    [NewWithDefaultMetadata(
        KInsert(KAnyObject, <<"hello">>, KBytes), {"Legacy"})
     EXCEPT !.meanings = OneField("message", <<<<"hello">>>>)]

VectorInput ==
    NewWithDefaultMetadata(
        KUnion(KInsert(KNever, <<"events">>,
                       KArray(Collection(EmptyMap, UExact(KObject(CollectionFrom(
                                  OneField(message_key, KBytes))))))),
               KBytes),
        {"Vector", "Legacy"})

\* An input with no field besides the known ones, and meanings on two of them.
ExactInput ==
    [NewWithDefaultMetadata(
        KObject(CollectionFrom(
            Put(OneField("hello", KBytes), "events",
                KArray(Collection(EmptyMap, UExact(KObject(CollectionFrom(
                           OneField(message_key, KBytes))))))))),
        {"Legacy"})
     EXCEPT !.meanings = Put(Put(OneField("message", <<<<"hello">>>>),
                                 "host", <<<<"events">>>>),
                             "service", <<<<"hello">>>>)]

InputLists ==
    { <<>>,
      << InputDefinition("in", LegacyInput) >>,
      << InputDefinition("in", ExactInput) >>,
      << InputDefinition("in", LegacyInput), InputDefinition("in2", VectorInput) >> }

-----------------------------------------------------------------------------
(* Remap::transform and what it calls.                                      *)

\* Remap::dropped_data: the message is the last user-authored note, if any.
DroppedMessageFirst(error) ==
    LET user == SelectSeq(error.notes, LAMBDA n : n.user)
    IN  IF user = <<>> THEN error.message ELSE user[1].text

DroppedMessage(error) ==
    LET user == SelectSeq(error.notes, LAMBDA n : n.user)
    IN  IF user = <<>> THEN error.message ELSE user[Len(user)].text

\* dropped_data reporting every failure as an error.
DroppedDataAlwaysError(r, reason, error) ==
    Object([f \in {"reason", "message", "component_id", "component_type",
                   "component_kind"} |->
        CASE f = "reason" -> Bytes("error")
          [] f = "message" -> Bytes(DroppedMessage(error))
          [] f = "component_id" ->
               IF r.component_key = <<>> THEN Null ELSE Bytes(r.component_key[1])
          [] f = "component_type" -> Bytes("remap")
          [] f = "component_kind" -> Bytes("transform")])

DroppedData(r, reason, error) ==
    Object([f \in {"reason", "message", "component_id", "component_type",
                   "component_kind"} |->
        CASE f = "reason" -> Bytes(reason)
          [] f = "message" -> Bytes(DroppedMessage(error))
          [] f = "component_id" ->
               IF r.component_key = <<>> THEN Null ELSE Bytes(r.component_key[1])
          [] f = "component_type" -> Bytes("remap")
          [] f = "component_kind" -> Bytes("transform")])

\* Metric::replace_tag
ReplaceTag(event, tag, v) == [event EXCEPT !.value = Object(Put(@.o, tag, Bytes(v)))]

\* annotate_dropped writing the payload over the whole metadata key of a log.
AnnotateDroppedClobber(r, event, reason, error) ==
    IF event.kind = "Metric" THEN ReplaceTag(event, metadata_key \o ".dropped.reason", reason)
    ELSE IF event.kind = "Log" /\ event.ns = "Vector"
         THEN [event EXCEPT !.metadata =
                 InsertPath(@, <<"vector">>, DroppedData(r, reason, error))]
         ELSE [event EXCEPT !.value =
                 InsertPath(@, <<metadata_key>>, DroppedData(r, reason, error))]

\* annotate_dropped giving a metric a tag for the message as well.
AnnotateDroppedWithMessageTag(r, event, reason, error) ==
    CASE event.kind = "Log" ->
           IF event.ns = "Legacy"
           THEN [event EXCEPT !.value =
                    InsertPath(@, <<metadata_key, "dropped">>, DroppedData(r, reason, error))]
           ELSE [event EXCEPT !.metadata =
                    InsertPath(@, <<"vector", "dropped">>, DroppedData(r, reason, error))]
      [] event.kind = "Metric" ->
           ReplaceTag(
             ReplaceTag(
               ReplaceTag(
                 ReplaceTag(
                   ReplaceTag(event, metadata_key \o ".dropped.reason", reason),
                   metadata_key \o ".dropped.message", DroppedMessage(error)),
                 metadata_key \o ".dropped.component_id",
                 IF r.component_key = <<>> THEN "" ELSE r.component_key[1]),
               metadata_key \o ".dropped.component_type", "remap"),
             metadata_key \o ".dropped.component_kind", "transform")
      [] event.kind = "Trace" ->
           [event EXCEPT !.value =
               InsertPath(@, <<metadata_key>>, DroppedData(r, reason, error))]

\* annotate_dropped writing into the body of every log, whatever its namespace.
AnnotateDroppedInBody(r, event, reason, error) ==
    CASE event.kind = "Log" ->
           [event EXCEPT !.value =
               InsertPath(@, <<metadata_key, "dropped">>, DroppedData(r, reason, error))]
      [] event.kind = "Metric" ->
           ReplaceTag(
             ReplaceTag(
               ReplaceTag(
                 ReplaceTag(event, metadata_key \o ".dropped.reason", reason),
                 metadata_key \o ".dropped.component_id",
                 IF r.component_key = <<>> THEN "" ELSE r.component_key[1]),
               metadata_key \o ".dropped.component_type", "remap"),
             metadata_key \o ".dropped.component_kind", "transform")
      [] event.kind = "Trace" ->
           [event EXCEPT !.value =
               InsertPath(@, <<metadata_key>>, DroppedData(r, reason, error))]

\* annotate_dropped nesting the payload of a trace under `dropped`, as for a log.
AnnotateDroppedTraceNested(r, event, reason, error) ==
    CASE event.kind = "Log" /\ event.ns = "Vector" ->
           [event EXCEPT !.metadata =
               InsertPath(@, <<"vector", "dropped">>, DroppedData(r, reason, error))]
      [] event.kind = "Metric" ->
           ReplaceTag(
             ReplaceTag(
               ReplaceTag(
                 ReplaceTag(event, metadata_key \o ".dropped.reason", reason),
                 metadata_key \o ".dropped.component_id",
                 IF r.component_key = <<>> THEN "" ELSE r.component_key[1]),
               metadata_key \o ".dropped.component_type", "remap"),
             metadata_key \o ".dropped.component_kind", "transform")
      [] OTHER ->
           [event EXCEPT !.value =
               InsertPath(@, <<metadata_key, "dropped">>, DroppedData(r, reason, error))]

\* Remap::annotate_dropped
AnnotateDropped(r, event, reason, error) ==
    CASE event.kind = "Log" ->
           IF event.ns = "Legacy"
           THEN [event EXCEPT !.value =
                    InsertPath(@, <<metadata_key, "dropped">>, DroppedData(r, reason, error))]
           ELSE [event EXCEPT !.metadata =
                    InsertPath(@, <<"vector", "dropped">>, DroppedData(r, reason, error))]
      [] event.kind = "Metric" ->
           ReplaceTag(
             ReplaceTag(
               ReplaceTag(
                 ReplaceTag(event, metadata_key \o ".dropped.reason", reason),
                 metadata_key \o ".dropped.component_id",
                 IF r.component_key = <<>> THEN "" ELSE r.component_key[1]),
               metadata_key \o ".dropped.component_type", "remap"),
             metadata_key \o ".dropped.component_kind", "transform")
      [] event.kind = "Trace" ->
           [event EXCEPT !.value =
               InsertPath(@, <<metadata_key>>, DroppedData(r, reason, error))]

\* push_default pushing the event with the definition it came with.
PushDefaultUnstamped(event, r) == event

\* push_default and push_dropped stamp the schema definition and push.
PushDefault(event, r) == [event EXCEPT !.schema = r.default_schema_definition]

PushDropped(event, r) == [event EXCEPT !.schema = r.dropped_schema_definition]

\* The clone decision at the head of transform.
ForwardOnError(r) == ~r.drop_on_error \/ r.reroute_dropped

ForwardOnAbort(r) == ~r.drop_on_abort \/ r.reroute_dropped

PreserveOriginalErrorOnly(r) == r.info.fallible /\ ForwardOnError(r)

PreserveOriginal(r) ==
    \/ r.info.fallible /\ ForwardOnError(r)
    \/ r.info.abortable /\ ForwardOnAbort(r)

\* The drop flag of the branch that fired.
DropFlagOfError(r, outcome) == r.drop_on_error

DropFlagOfAbort(r, outcome) == r.drop_on_abort

DropFlag(r, outcome) == IF outcome = "abort" THEN r.drop_on_abort ELSE r.drop_on_error

\* The internal event of an error, whatever ended the run.
InternalEventAlwaysError(r, outcome, error) ==
    [name |-> "RemapMappingError", error |-> error.message,
     event_dropped |-> r.drop_on_error]

\* The internal event emitted when the run terminates.
InternalEvent(r, outcome, error) ==
    IF outcome = "abort"
    THEN [name |-> "RemapMappingAbort", error |-> "", event_dropped |-> r.drop_on_abort]
    ELSE [name |-> "RemapMappingError", error |-> error.message,
          event_dropped |-> r.drop_on_error]

\* The Ok arm pushing the events of the target last to first.
RouteSuccessReversed(r, event, target) ==
    LET events == IntoEvents(event, target)
    IN  [primary |-> [i \in 1..Len(events) |->
                        PushDefault(events[Len(events) + 1 - i], r)],
         dropped |-> <<>>, warned |-> FALSE]

\* The Ok arm: every event of the target goes to the primary output, in order.
RouteSuccess(r, event, target) ==
    LET events == IntoEvents(event, target)
    IN  [primary |-> [i \in 1..Len(events) |-> PushDefault(events[i], r)],
         dropped |-> <<>>, warned |-> FALSE]

\* The Err arm sending every dropped event to `dropped`, rerouting asked or not.
RouteFailureAlwaysRerouted(r, original, reason, error, drop) ==
    IF original # <<>>
    THEN IF ~drop
         THEN [primary |-> <<PushDefault(original[1], r)>>, dropped |-> <<>>,
               warned |-> FALSE]
         ELSE [primary |-> <<>>,
               dropped |-> <<PushDropped(
                               AnnotateDropped(r, original[1], reason, error), r)>>,
               warned |-> FALSE]
    ELSE [primary |-> <<>>, dropped |-> <<>>, warned |-> ~drop \/ r.reroute_dropped]

\* The Err arm warning whenever there is no copy, whatever the policy.
RouteFailureAlwaysWarning(r, original, reason, error, drop) ==
    IF original # <<>>
    THEN IF ~drop
         THEN [primary |-> <<PushDefault(original[1], r)>>, dropped |-> <<>>,
               warned |-> FALSE]
         ELSE IF r.reroute_dropped
              THEN [primary |-> <<>>,
                    dropped |-> <<PushDropped(
                                    AnnotateDropped(r, original[1], reason, error), r)>>,
                    warned |-> FALSE]
              ELSE [primary |-> <<>>, dropped |-> <<>>, warned |-> FALSE]
    ELSE [primary |-> <<>>, dropped |-> <<>>, warned |-> TRUE]

\* The Err arm that also forwards the original when it reroutes it.
RouteFailureBothOutputs(r, original, reason, error, drop) ==
    IF original # <<>>
    THEN IF ~drop
         THEN [primary |-> <<PushDefault(original[1], r)>>, dropped |-> <<>>,
               warned |-> FALSE]
         ELSE IF r.reroute_dropped
              THEN [primary |-> <<PushDefault(original[1], r)>>,
                    dropped |-> <<PushDropped(
                                    AnnotateDropped(r, original[1], reason, error), r)>>,
                    warned |-> FALSE]
              ELSE [primary |-> <<>>, dropped |-> <<>>, warned |-> FALSE]
    ELSE [primary |-> <<>>, dropped |-> <<>>, warned |-> ~drop \/ r.reroute_dropped]

\* The Err arm, once reason, error and drop are known.
RouteFailure(r, original, reason, error, drop) ==
    IF original # <<>>
    THEN IF ~drop
         THEN [primary |-> <<PushDefault(original[1], r)>>, dropped |-> <<>>,
               warned |-> FALSE]
         ELSE IF r.reroute_dropped
              THEN [primary |-> <<>>,
                    dropped |-> <<PushDropped(
                                    AnnotateDropped(r, original[1], reason, error), r)>>,
                    warned |-> FALSE]
              ELSE [primary |-> <<>>, dropped |-> <<>>, warned |-> FALSE]
    ELSE [primary |-> <<>>, dropped |-> <<>>, warned |-> ~drop \/ r.reroute_dropped]

\* Remap::transform on `event` once the runner has handed back `run`.
TransformAfterRun(r, event, run) ==
    LET original == IF PreserveOriginal(r) THEN <<event>> ELSE <<>>
        routed == IF run.result = "ok" THEN RouteSuccess(r, event, run.target)
                  ELSE RouteFailure(r, original, run.result, run.error,
                                    DropFlag(r, run.result))
    IN  [result |-> run.result,
         fault |-> IF run.result = "ok" THEN <<>> ELSE <<run.error>>,
         copied |-> original # <<>>,
         runtime |-> run.runtime,
         primary |-> routed.primary,
         dropped |-> routed.dropped,
         warned |-> routed.warned,
         emitted |-> IF run.result = "ok" THEN <<>>
                     ELSE <<InternalEvent(r, run.result, run.error)>>,
         \* what the call did to the outside, in the order of the code
         effects |-> (IF run.result = "ok" THEN <<>> ELSE <<"emit">>)
                     \o [i \in 1..Len(routed.primary) |-> "push_default"]
                     \o [i \in 1..Len(routed.dropped) |-> "push_dropped"]
                     \o (IF routed.warned THEN <<"warn">> ELSE <<>>)]

\* Remap::transform on `event`, the runner's scratch state being `rt`.
TransformCall(r, rt, event) ==
    TransformAfterRun(r, event,
        AstRunnerRun(rt, VrlTargetNew(event), r.program, event.kind, r.timezone))

-----------------------------------------------------------------------------
(* The state machine.                                                       *)

\* No clone made: no runtime besides the instance's own, no task.
NoReplicas == [runtimes |-> <<>>, tasks |-> <<>>]

\* Nothing built, nothing processed.
Fresh ==
    /\ built = "no"
    /\ buildError = ""
    /\ compileAttempted = FALSE
    /\ remap = <<>>
    /\ runtime = EmptyMap
    /\ inbound = <<>>
    /\ result = "none"
    /\ fault = <<>>
    /\ copied = FALSE
    /\ primary = <<>>
    /\ dropped = <<>>
    /\ emitted = <<>>
    /\ warned = FALSE
    /\ calls = 0
    /\ previous = "none"
    /\ ports = <<>>
    /\ replicas = NoReplicas

InitOver(scripts) ==
    /\ config \in ConfigsOver(scripts)
    /\ context \in Contexts
    /\ schema = <<>>
    /\ Fresh

Init == InitOver(Scripts)

\* RemapConfig::build through Remap::new_ast.
Build(fileRead) ==
    /\ built = "no"
    /\ LET c == CompileVrlProgram(config, fileRead)
       IN  /\ built' = IF c.ok THEN "ok" ELSE "err"
           /\ buildError' = c.error
           /\ compileAttempted' = c.compiled
           /\ remap' = IF c.ok THEN <<RemapNew(config, context, c.program[1])>> ELSE <<>>
    /\ UNCHANGED << config, context, runtime, inbound, result, fault, copied, primary,
                    dropped, emitted, warned, calls, previous, schema,
                    ports, replicas >>

\* The build when Program::info() may report any flags for the program.
BuildWithInfo(fileRead, info) ==
    /\ built = "no"
    /\ LET c == CompileVrlProgram(config, fileRead)
       IN  /\ built' = IF c.ok THEN "ok" ELSE "err"
           /\ buildError' = c.error
           /\ compileAttempted' = c.compiled
           /\ remap' = IF c.ok
                       THEN <<[RemapNew(config, context, c.program[1])
                                 EXCEPT !.info = info]>>
                       ELSE <<>>
    /\ UNCHANGED << config, context, runtime, inbound, result, fault, copied, primary,
                    dropped, emitted, warned, calls, previous, schema, ports, replicas >>

\* One call of Remap::transform with a fresh output buffer.
Transform(event) ==
    /\ built = "ok"
    /\ calls < MaxCalls
    /\ calls' = calls + 1
    /\ previous' = result
    /\ LET t == TransformCall(remap[1], runtime, event)
       IN  /\ inbound' = <<event>>
           /\ result' = t.result
           /\ fault' = t.fault
           /\ copied' = t.copied
           /\ runtime' = t.runtime
           /\ primary' = t.primary
           /\ dropped' = t.dropped
           /\ emitted' = t.emitted
           /\ warned' = t.warned
    /\ UNCHANGED << config, context, built, buildError, compileAttempted, remap, schema,
                    ports, replicas >>

\* One call of RemapConfig::outputs, before any event flows.
CallOutputs(input_definitions, fileRead) ==
    /\ ports = <<>>
    /\ inbound = <<>>
    /\ LET out == Outputs(config, input_definitions, fileRead)
       IN  ports' = << [inputs |-> input_definitions, fileRead |-> fileRead,
                       panicked |-> out.panicked, outputs |-> out.ports] >>
    /\ UNCHANGED << config, context, built, buildError, compileAttempted, remap, runtime,
                    inbound, result, fault, copied, primary, dropped, emitted, warned,
                    calls, previous, schema, replicas >>

\* What reading `file` gives; nothing is read unless `file` alone is set.
FileReads(cfg) ==
    IF cfg.source = <<>> /\ cfg.file # <<>> THEN {"ok", "open_failed", "read_failed"}
    ELSE {"unread"}

Next ==
    \/ \E fileRead \in FileReads(config) : Build(fileRead)
    \/ \E event \in Events : Transform(event)
    \/ \E input_definitions \in InputLists, fileRead \in FileReads(config) :
          CallOutputs(input_definitions, fileRead)

Spec == Init /\ [][Next]_vars

\* The flags Program::info() may report.
ProgramInfos == [fallible : BOOLEAN, abortable : BOOLEAN]

\* The same machine when the flags of the program need not tell what the
\* program does: the branch of transform that has no copy to forward is reached.
NextAnyInfo ==
    \/ \E fileRead \in FileReads(config), info \in ProgramInfos :
          BuildWithInfo(fileRead, info)
    \/ \E event \in Events : Transform(event)
    \/ \E input_definitions \in InputLists, fileRead \in FileReads(config) :
          CallOutputs(input_definitions, fileRead)

InitAnyInfo == InitOver(FailingScripts)

SpecAnyInfo == InitAnyInfo /\ [][NextAnyInfo]_vars

\* The time zones a config or the global options may name.
TimeZones == {"America/Los_Angeles", "Etc/UTC"}

\* Events with a timestamp written without a zone, and one without a timestamp.
TimestampEvents ==
    { LogEvent(OneField("timestamp", Bytes("2022-12-27 00:00:00")), "Legacy", EmptyMap),
      LogEvent(OneField("timestamp", Bytes("2023-01-01 12:30:00")), "Legacy", EmptyMap),
      TraceEvent(OneField("timestamp", Bytes("2022-12-27 00:00:00"))),
      LogEvent(OneField("hello", Bytes("world")), "Legacy", EmptyMap) }

\* The same machine over the script that parses a timestamp, the config naming
\* a time zone or none and the global options naming one.
InitTimezone ==
    /\ config \in { [c EXCEPT !.timezone = tz] :
                        c \in ConfigsOver({ Script(TimestampScript, TRUE) }),
                        tz \in { <<>> } \cup { <<z>> : z \in TimeZones } }
    /\ context \in { [c EXCEPT !.timezone = z] : c \in Contexts, z \in TimeZones }
    /\ schema = <<>>
    /\ Fresh

NextTimezone ==
    \/ \E fileRead \in FileReads(config) : Build(fileRead)
    \/ \E event \in TimestampEvents : Transform(event)

SpecTimezone == InitTimezone /\ [][NextTimezone]_vars

\* The same machine over the scripts whose fault carries every sequence of notes.
InitNotes == InitOver(NoteScripts)

SpecNotes == InitNotes /\ [][Next]_vars

-----------------------------------------------------------------------------
(* The schema helpers on their own: Init draws the definition, and every    *)
(* action applies one helper to it.                                         *)

KBoolean == KPrim("boolean")

\* An object kind with exactly the given fields.
KFields(known) == KObject(CollectionFrom(known))

ObjectAB == KFields(Put(OneField("a", KInteger), "b", KBoolean))

\* Kind::array(Collection::from_unknown(k)): every element is a k.
KArrayOf(k) == KArray(Collection(EmptyMap, UExact(k)))

\* The kind of an array literal: the elements at their indices.
KArrayLiteral(elems) == KArray(CollectionFrom([i \in {"0", "1"} |->
                                                  IF i = "0" THEN elems[1] ELSE elems[2]]))

ObjectChoices ==
    { <<>>, <<CollectionAny>>, <<ObjectAB.obj[1]>>,
      <<CollectionFrom(OneField(message_key, KInteger))>>,
      <<CollectionFrom(OneField(message_key, KUnion(KBytes, KNull)))>>,
      <<CollectionFrom(Put(OneField(message_key, KInteger), "other", KBytes))>>,
      <<CollectionFrom(Put(OneField(message_key, KBoolean), "other", ObjectAB))>> }

\* The object of tests::test_merged_array_definitions_*.
ObjectCarrotPotato == KFields(Put(OneField("carrot", KBytes), "potato", KInteger))

ArrayChoices ==
    { <<>>, <<CollectionAny>>, <<KArrayOf(ObjectAB).arr[1]>>,
      <<KArrayOf(ObjectCarrotPotato).arr[1]>>,
      <<KArrayLiteral(<<ObjectAB, ObjectAB>>).arr[1]>>,
      <<KArrayLiteral(<<KFields(OneField("a", KInteger)),
                        KFields(OneField("b", KBoolean))>>).arr[1]>>,
      <<KArrayLiteral(<<KInteger, KFields(OneField("peas", KBytes))>>).arr[1]>> }

PrimChoices ==
    { {}, {"bytes"}, {"integer"}, {"null"}, {"undefined"}, {"bytes", "integer"},
      {"boolean", "timestamp"}, {"float", "regex", "undefined"}, Scalars }

\* The event kinds the helpers are applied to.
EventKinds ==
    { [prims |-> p, obj |-> o, arr |-> a] :
        p \in PrimChoices, o \in ObjectChoices, a \in ArrayChoices }

SchemaOf(def) ==
    [input |-> def, merged |-> <<>>, moved |-> <<>>, projected |-> <<>>, piped |-> <<>>,
     aborted |-> <<>>]

\* Two transforms in a row: the first sets a field, the second copies it.
SetThingScript == << Stmt("set", <<"thing">>, <<>>, "potato") >>

CopyThingScript == << Stmt("copy", <<"thang">>, <<"thing">>, "") >>

StageConfig(stmts) ==
    [source |-> <<Script(stmts, TRUE)>>, file |-> <<>>, timezone |-> <<>>,
     drop_on_error |-> FALSE,
     drop_on_abort |-> TRUE, reroute_dropped |-> FALSE]

\* outputs()[0].schema_definitions()[id] of a transform with one input.
PrimaryDefinition(stmts, id, def) ==
    Outputs(StageConfig(stmts), <<InputDefinition(id, def)>>, "unread").ports[1]
        .definitions[id]

InitSchema ==
    /\ config \in ConfigsOver({})
    /\ config.source = <<>> /\ config.file = <<>>
    /\ config.drop_on_error /\ config.drop_on_abort /\ config.reroute_dropped
    /\ context = CHOOSE c \in Contexts : c.key = <<>>
    /\ schema \in { SchemaOf([NewWithDefaultMetadata(k, {"Legacy"}) EXCEPT
                                 !.meanings = m]) :
                        k \in EventKinds,
                        m \in {EmptyMap, OneField("message", <<<<message_key>>>>)} }
    /\ Fresh

\* merge_array_definitions on the definition.
MergeArray ==
    /\ schema.merged = <<>>
    /\ schema' = [schema EXCEPT !.merged = <<MergeArrayDefinitions(schema.input)>>]
    /\ UNCHANGED << config, context, built, buildError, compileAttempted, remap, runtime,
                    inbound, result, fault, copied, primary, dropped, emitted, warned,
                    calls, previous, ports, replicas >>

\* move_field_definitions_into_message on the definition.
MoveFields ==
    /\ schema.moved = <<>>
    /\ schema' = [schema EXCEPT !.moved = <<MoveFieldDefinitionsIntoMessage(schema.input)>>]
    /\ UNCHANGED << config, context, built, buildError, compileAttempted, remap, runtime,
                    inbound, result, fault, copied, primary, dropped, emitted, warned,
                    calls, previous, ports, replicas >>

\* The two composed, as outputs() applies them to a definition it inserts.
Project ==
    /\ schema.projected = <<>>
    /\ schema' = [schema EXCEPT !.projected =
                     <<FlattenThenPromote(schema.input)>>]
    /\ UNCHANGED << config, context, built, buildError, compileAttempted, remap, runtime,
                    inbound, result, fault, copied, primary, dropped, emitted, warned,
                    calls, previous, ports, replicas >>

\* The primary definition of the first transform is the input of the second.
Pipe ==
    /\ schema.piped = <<>>
    /\ LET outputs1 == PrimaryDefinition(SetThingScript, "in", schema.input)
           outputs2 == PrimaryDefinition(CopyThingScript, "in1", outputs1)
       IN  schema' = [schema EXCEPT !.piped = <<[outputs1 |-> outputs1,
                                                 outputs2 |-> outputs2]>>]
    /\ UNCHANGED << config, context, built, buildError, compileAttempted, remap, runtime,
                    inbound, result, fault, copied, primary, dropped, emitted, warned,
                    calls, previous, ports, replicas >>

\* outputs() of a transform whose script only aborts: with the definition as
\* its only input, and with it as one of two inputs.
AbortOnly ==
    /\ schema.aborted = <<>>
    /\ LET alone == PrimaryDefinition(AbortOnlyScript, "in", schema.input)
           beside == Outputs(StageConfig(AbortOnlyScript),
                             <<InputDefinition("in", schema.input),
                               InputDefinition("in2", VectorInput)>>,
                             "unread").ports[1].definitions["in"]
       IN  schema' = [schema EXCEPT !.aborted = <<[alone |-> alone, beside |-> beside]>>]
    /\ UNCHANGED << config, context, built, buildError, compileAttempted, remap, runtime,
                    inbound, result, fault, copied, primary, dropped, emitted, warned,
                    calls, previous, ports, replicas >>

NextSchema == MergeArray \/ MoveFields \/ Project \/ Pipe \/ AbortOnly

SpecSchema == InitSchema /\ [][NextSchema]_vars

-----------------------------------------------------------------------------
(* Replicas. enable_concurrency() is true, so the instance is cloned and    *)
(* each clone processes its own events. `replicas.runtimes` holds the       *)
(* runtimes the clones made; a runner names its runtime by its index there, *)
(* 0 naming the runtime of the instance. A run of a replica takes two       *)
(* steps, the resolve and then the clear with the routing, so that runs of  *)
(* different replicas overlap.                                              *)

\* The clone handing on the runtime of the runner it is cloned from.
AstRunnerCloneShared(self, runtimes) == [runner |-> self, runtimes |-> runtimes]

\* AstRunner::clone: the clone gets Runtime::default(), whatever `self` holds.
AstRunnerClone(self, runtimes) ==
    [runner |-> Len(runtimes) + 1, runtimes |-> Append(runtimes, EmptyMap)]

\* The events the replicas process: with and without the field the scripts
\* keep in a local variable, of each kind.
ReplicaEvents ==
    { LogEvent(OneField("hello", Bytes("world")), "Legacy", EmptyMap),
      LogEvent(Put(OneField("hello", Bytes("goodbye")), "sentinel", Bytes("bar")),
               "Legacy", EmptyMap),
      TraceEvent(Put(OneField("hello", Bytes("goodbye")), "sentinel", Bytes("bar"))),
      Metric("counter", OneField("hello", Bytes("world"))) }

ReplicaScripts == { Script(LocalScript, TRUE), Script(BranchingScript, TRUE) }

RuntimeOf(runner) == IF runner = 0 THEN runtime ELSE replicas.runtimes[runner]

\* What one call of transform hands to the outside.
OutputsOf(t) ==
    [result |-> t.result, primary |-> t.primary, dropped |-> t.dropped,
     emitted |-> t.emitted, warned |-> t.warned]

\* #[derive(Clone)] on Remap: every field is cloned, the runner by
\* AstRunner::clone.
Clone ==
    /\ built = "ok"
    /\ Len(replicas.tasks) < MaxReplicas
    /\ LET c == AstRunnerClone(0, replicas.runtimes)
       IN  replicas' = [runtimes |-> c.runtimes,
                        tasks |-> Append(replicas.tasks,
                                         [remap |-> remap[1], runner |-> c.runner,
                                          pending |-> <<>>, stream |-> <<>>,
                                          outputs |-> <<>>])]
    /\ UNCHANGED << config, context, built, buildError, compileAttempted, remap, runtime,
                    inbound, result, fault, copied, primary, dropped, emitted, warned,
                    calls, previous, schema, ports >>

\* The first half of AstRunner::run in replica i: the resolve, which leaves the
\* local variables of the script in the runtime.
ReplicaResolve(i, event) ==
    /\ i \in 1..Len(replicas.tasks)
    /\ replicas.tasks[i].pending = <<>>
    /\ Len(replicas.tasks[i].stream) < MaxCalls
    /\ LET task == replicas.tasks[i]
           r == Resolve(RuntimeOf(task.runner), VrlTargetNew(event), task.remap.program,
                        event.kind, task.remap.timezone)
           run == [result |-> r.result,
                   error |-> [message |-> r.message, notes |-> r.notes],
                   target |-> r.target, runtime |-> EmptyMap]
       IN  /\ replicas' =
                 [runtimes |-> IF task.runner = 0 THEN replicas.runtimes
                               ELSE [replicas.runtimes EXCEPT ![task.runner] = r.locals],
                  tasks |-> [replicas.tasks EXCEPT
                                ![i].pending = <<[event |-> event, run |-> run]>>]]
           /\ runtime' = IF task.runner = 0 THEN r.locals ELSE runtime
    /\ UNCHANGED << config, context, built, buildError, compileAttempted, remap,
                    inbound, result, fault, copied, primary, dropped, emitted, warned,
                    calls, previous, schema, ports >>

\* The second half in replica i: the runtime is cleared, the result handed back
\* and the rest of transform routes the event.
ReplicaFinish(i) ==
    /\ i \in 1..Len(replicas.tasks)
    /\ replicas.tasks[i].pending # <<>>
    /\ LET task == replicas.tasks[i]
           t == TransformAfterRun(task.remap, task.pending[1].event, task.pending[1].run)
       IN  /\ replicas' =
                 [runtimes |-> IF task.runner = 0 THEN replicas.runtimes
                               ELSE [replicas.runtimes EXCEPT ![task.runner] = EmptyMap],
                  tasks |-> [replicas.tasks EXCEPT
                                ![i].pending = <<>>,
                                ![i].stream = Append(@, task.pending[1].event),
                                ![i].outputs = Append(@, OutputsOf(t))]]
           /\ runtime' = IF task.runner = 0 THEN EmptyMap ELSE runtime
    /\ UNCHANGED << config, context, built, buildError, compileAttempted, remap,
                    inbound, result, fault, copied, primary, dropped, emitted, warned,
                    calls, previous, schema, ports >>

InitReplicas == InitOver(ReplicaScripts)

NextReplicas ==
    \/ \E fileRead \in FileReads(config) : Build(fileRead)
    \/ Clone
    \/ \E i \in 1..MaxReplicas, event \in ReplicaEvents : ReplicaResolve(i, event)
    \/ \E i \in 1..MaxReplicas : ReplicaFinish(i)

SpecReplicas == InitReplicas /\ [][NextReplicas]_vars

-----------------------------------------------------------------------------
(* Properties.                                                              *)

\* `out` is `original` as it came in: only the schema definition is stamped.
Unmodified(out, original) == [out EXCEPT !.schema = original.schema] = original

\* Where the diagnostic payload of a dropped event is, and the value found there.
PayloadPath(e) ==
    IF e.kind = "Trace" THEN <<metadata_key>>
    ELSE IF e.ns = "Vector" THEN <<"vector", "dropped">>
         ELSE <<metadata_key, "dropped">>

PayloadHolder(e) == IF e.kind = "Log" /\ e.ns = "Vector" THEN e.metadata ELSE e.value

\* The reason an annotated event carries: <<reason>>, or <<>> when it has none.
DroppedReason(e) ==
    IF e.kind = "Metric"
    THEN IF Has(e.value.o, metadata_key \o ".dropped.reason")
         THEN <<e.value.o[metadata_key \o ".dropped.reason"].s>> ELSE <<>>
    ELSE LET g == GetPath(PayloadHolder(e), PayloadPath(e) \o <<"reason">>)
         IN  IF g = <<>> THEN <<>> ELSE <<g[1].s>>

\* The routing law of a failed run whose branch has the drop flag `drop`.
RoutingLaw(drop, reason) ==
    /\ IF ~drop
       THEN Len(primary) = 1 /\ Unmodified(primary[1], inbound[1])
       ELSE primary = <<>>
    /\ IF drop /\ config.reroute_dropped
       THEN /\ Len(dropped) = 1
            /\ dropped[1].kind = inbound[1].kind
            /\ DroppedReason(dropped[1]) = <<reason>>
       ELSE dropped = <<>>

\* C1: when the run of the script ends in Terminate::Error, the primary output
\* gets the original event, unmodified, iff drop_on_error is false; the dropped
\* output gets the annotated original iff drop_on_error and reroute_dropped are
\* both true; otherwise no output gets an event.
C1_ErrorRouting == result = "error" => RoutingLaw(config.drop_on_error, "error")

C1_Witness ==
    /\ result = "error"
    /\ config.drop_on_error /\ ~config.drop_on_abort /\ config.reroute_dropped
    /\ primary = <<>>
    /\ Len(dropped) = 1

\* C2: when the run ends in Terminate::Abort the same law holds with
\* drop_on_abort in place of drop_on_error, whatever drop_on_error is.
C2_AbortRouting == result = "abort" => RoutingLaw(config.drop_on_abort, "abort")

C2_Witness ==
    /\ result = "abort"
    /\ config.drop_on_error /\ ~config.drop_on_abort
    /\ Len(primary) = 1
    /\ dropped = <<>>

\* C3: transform preserves a copy of the inbound event iff the program is
\* fallible and an error forwards the event, or the program is abortable and an
\* abort forwards it.
C3_CloneDecision ==
    inbound # <<>> =>
        (copied <=>
            \/ /\ ProgramInfo(remap[1].program).fallible
               /\ (~config.drop_on_error \/ config.reroute_dropped)
            \/ /\ ProgramInfo(remap[1].program).abortable
               /\ (~config.drop_on_abort \/ config.reroute_dropped))

C3_Witness ==
    /\ inbound # <<>>
    /\ copied
    /\ ~ProgramInfo(remap[1].program).fallible
    /\ config.drop_on_error /\ ~config.reroute_dropped

\* `a` is `b` but for what lies at `path`: every object on the way keeps its
\* other fields, and gains at most the next field of the path.
RECURSIVE SameExcept(_, _, _)
SameExcept(a, b, path) ==
    IF path = <<>> \/ b.t # "object" THEN TRUE
    ELSE /\ a.t = "object"
         /\ DOMAIN a.o = (DOMAIN b.o) \cup {Head(path)}
         /\ \A k \in (DOMAIN b.o) \ {Head(path)} : a.o[k] = b.o[k]
         /\ Has(b.o, Head(path)) =>
                SameExcept(a.o[Head(path)], b.o[Head(path)], Tail(path))

\* The tags annotate_dropped writes on a metric.
DroppedTags ==
    { metadata_key \o ".dropped.reason", metadata_key \o ".dropped.component_id",
      metadata_key \o ".dropped.component_type", metadata_key \o ".dropped.component_kind" }

\* C4: an event on the dropped output is the event as it was before the script
\* ran, changed only at the location of the diagnostic annotation: nothing the
\* failed script wrote is there and every other field keeps its value.
C4_DroppedFrame ==
    \A i \in 1..Len(dropped) :
        LET d == dropped[i]
            o == inbound[1]
        IN  /\ d.kind = o.kind /\ d.name = o.name /\ d.ns = o.ns
            /\ IF o.kind = "Metric"
               THEN /\ d.metadata = o.metadata
                    /\ DOMAIN d.value.o = (DOMAIN o.value.o) \cup DroppedTags
                    /\ \A k \in (DOMAIN o.value.o) \ DroppedTags : d.value.o[k] = o.value.o[k]
               ELSE IF o.kind = "Log" /\ o.ns = "Vector"
                    THEN /\ d.value = o.value
                         /\ SameExcept(d.metadata, o.metadata, PayloadPath(o))
                    ELSE /\ d.metadata = o.metadata
                         /\ SameExcept(d.value, o.value, PayloadPath(o))

\* A script that writes `foo` before its fault, on a log with a field next to
\* the annotation.
C4_Witness ==
    /\ Len(dropped) = 1
    /\ remap[1].program = BranchingScript
    /\ inbound[1].kind = "Log"
    /\ GetPath(inbound[1].value, <<metadata_key, "source">>) # <<>>
    /\ GetPath(dropped[1].value, <<metadata_key, "source">>) # <<>>
    /\ GetPath(dropped[1].value, <<"foo">>) = <<>>

\* What a fresh instance of the same configuration does with `event` alone.
FreshCall(event) ==
    TransformCall(RemapNew(config, context, remap[1].program), EmptyMap, event)

\* C5: running event A and then event B through one instance gives for B the
\* outputs (same ports, same events) of B alone on a fresh instance: nothing
\* read from A is visible while B is processed.
C5_NoSharedState ==
    calls >= 1 =>
        /\ primary = FreshCall(inbound[1]).primary
        /\ dropped = FreshCall(inbound[1]).dropped
        /\ result = FreshCall(inbound[1]).result

\* A second event without `sentinel` through a script that keeps `sentinel` in a
\* local variable: `foo` is null, not what an earlier event held.
C5_Witness ==
    /\ calls = 2
    /\ remap[1].program = LocalScript
    /\ inbound[1].kind = "Log"
    /\ GetPath(inbound[1].value, <<"sentinel">>) = <<>>
    /\ Len(primary) = 1
    /\ GetPath(primary[1].value, <<"foo">>) = <<Null>>

\* The value the script leaves in the target when run on `event` alone.
FinalTarget(event) ==
    Resolve(EmptyMap, VrlTargetNew(event), remap[1].program, event.kind,
            remap[1].timezone).target

ArrayOfObjects(v) == v.t = "array" /\ \A i \in 1..Len(v.a) : v.a[i].t = "object"

\* C6: when the script succeeds on a log and leaves an array of N objects as
\* the event body (N >= 0), exactly N events go to the primary output, in the
\* order of the array, the i-th being the i-th element as an event of its own,
\* and nothing goes to the dropped output.
C6_FanOut ==
    (/\ result = "ok"
     /\ inbound[1].kind = "Log"
     /\ ArrayOfObjects(FinalTarget(inbound[1]))) =>
        LET elems == FinalTarget(inbound[1]).a
        IN  /\ Len(primary) = Len(elems)
            /\ \A i \in 1..Len(elems) :
                  primary[i] = [inbound[1] EXCEPT
                                   !.value = elems[i],
                                   !.schema = remap[1].default_schema_definition]
            /\ dropped = <<>>

C6_Witness ==
    /\ result = "ok"
    /\ inbound[1].kind = "Log"
    /\ ArrayOfObjects(FinalTarget(inbound[1]))
    /\ Len(primary) = 2
    /\ primary[1].value = Element(1)
    /\ primary[2].value = Element(2)

\* C7: outputs() returns the primary port first, and a second port named
\* `dropped` iff reroute_dropped is set, whether or not the script compiles and
\* whatever the input definitions are.
C7_OutputPorts ==
    (ports # <<>> /\ ~ports[1].panicked) =>
        /\ Len(ports[1].outputs) = IF config.reroute_dropped THEN 2 ELSE 1
        /\ ports[1].outputs[1].port = PrimaryPort
        /\ config.reroute_dropped => ports[1].outputs[2].port = DROPPED

C7_Witness ==
    /\ ports # <<>>
    /\ ~config.reroute_dropped
    /\ config.source # <<>> /\ config.file = <<>> /\ ~config.source[1].compiles
    /\ Len(ports[1].inputs) = 2
    /\ Len(ports[1].outputs) = 1

\* Whether outputs() got a program out of the configuration.
OutputsCompiled == CompileVrlProgram(config, ports[1].fileRead).ok

\* C8: when the script does not compile, or the source configuration is
\* invalid, outputs() still returns, and the primary definition of every input
\* branch has event kind `never`, also after array flattening and scalar
\* promotion.
C8_NeverOnCompileFailure ==
    (ports # <<>> /\ ~OutputsCompiled) =>
        /\ ~ports[1].panicked
        /\ Len(ports[1].outputs) >= 1
        /\ DOMAIN ports[1].outputs[1].definitions =
               { ports[1].inputs[i].id : i \in 1..Len(ports[1].inputs) }
        /\ \A id \in DOMAIN ports[1].outputs[1].definitions :
               ports[1].outputs[1].definitions[id].event_kind = KNever

C8_Witness ==
    /\ ports # <<>>
    /\ config.source # <<>> /\ config.file # <<>>
    /\ Len(ports[1].inputs) = 2
    /\ \A id \in {"in", "in2"} : ports[1].outputs[1].definitions[id].event_kind = KNever

\* The text of the last user-authored note of a fault, or its default rendering.
RECURSIVE LastUserNote(_, _, _)
LastUserNote(notes, i, default) ==
    IF i = 0 THEN default
    ELSE IF notes[i].user THEN notes[i].text
         ELSE LastUserNote(notes, i - 1, default)

\* C9: the message of the diagnostic payload is the text of the last note of the
\* fault that is a user-authored error message, for any number and order of
\* notes, and the default rendering of the fault when it has no such note.
C9_LastUserMessage ==
    \A i \in 1..Len(dropped) :
        dropped[i].kind # "Metric" =>
            GetPath(PayloadHolder(dropped[i]), PayloadPath(dropped[i]) \o <<"message">>)
              = << Bytes(LastUserNote(fault[1].notes, Len(fault[1].notes),
                                      fault[1].message)) >>

C9_Witness ==
    /\ Len(dropped) = 1
    /\ dropped[1].kind = "Log"
    /\ Len(fault[1].notes) = 2
    /\ fault[1].notes[1] = UserErrorMessage("second custom message")
    /\ fault[1].notes[2] = UserErrorMessage("custom message here")
    /\ GetPath(dropped[1].value, <<metadata_key, "dropped", "message">>)
         = << Bytes("custom message here") >>

\* Exactly one of `source` and `file` is set.
ExactlyOne(cfg) == (cfg.source # <<>>) # (cfg.file # <<>>)

\* C10: the build fails with the error that exactly one of source and file must
\* be given when both are set and when neither is; a script is compiled only
\* when exactly one of them is set, and a failed build leaves no instance.
C10_SourceXorFile ==
    /\ (built # "no" /\ ~ExactlyOne(config)) =>
          /\ built = "err"
          /\ buildError = SourceAndOrFile
    /\ compileAttempted => ExactlyOne(config)
    /\ built = "err" => remap = <<>>
    /\ remap # <<>> => ExactlyOne(config)

C10_Witness ==
    /\ built = "err"
    /\ config.source # <<>> /\ config.file # <<>>
    /\ config.source[1].compiles /\ config.file[1].compiles
    /\ buildError = SourceAndOrFile
    /\ ~compileAttempted
    /\ remap = <<>>

\* The event kind is an array, and nothing else, whose elements are all ObjectAB.
ArrayOfObjectAB(k) == k \in {KArrayOf(ObjectAB), KArrayLiteral(<<ObjectAB, ObjectAB>>)}

\* C11 as stated: an array of objects {a: integer, b: boolean} projects to the
\* object {a: integer or undefined, b: boolean or undefined}, with no array
\* possibility.
C11_FlattenMarksUndefined ==
    (schema # <<>> /\ schema.projected # <<>> /\ ArrayOfObjectAB(schema.input.event_kind)) =>
        schema.projected[1].event_kind =
            KFields(Put(OneField("a", KUnion(KInteger, KUndefined)),
                        "b", KUnion(KBoolean, KUndefined)))

\* C11, amended: an array all of whose elements are objects {a: integer,
\* b: boolean} projects to that object kind itself, at the top level and with no
\* array possibility; a field is marked undefined only when the elements differ
\* in their fields.
C11_FlattenArrayOfObjects ==
    (schema # <<>> /\ schema.projected # <<>>) =>
        /\ ArrayOfObjectAB(schema.input.event_kind) =>
              /\ schema.projected[1].event_kind = ObjectAB
              /\ schema.projected[1].event_kind.arr = <<>>
        /\ schema.input.event_kind =
              KArrayLiteral(<<KFields(OneField("a", KInteger)),
                              KFields(OneField("b", KBoolean))>>) =>
              schema.projected[1].event_kind =
                  KFields(Put(OneField("a", KUnion(KInteger, KUndefined)),
                              "b", KUnion(KBoolean, KUndefined)))

C11_Witness ==
    /\ schema # <<>>
    /\ schema.input.event_kind = KArrayOf(ObjectAB)
    /\ schema.projected # <<>>
    /\ schema.projected[1].event_kind = ObjectAB

\* What is left of a kind without its object and array possibilities.
Residual(k) == RemoveArray(RemoveObject(k))

\* The kind the object possibility of `k` has for its `message` field.
MessageKind(k) ==
    IF Has(k.obj[1].known, message_key) THEN k.obj[1].known[message_key]
    ELSE UnknownKind(k.obj[1])

\* C12: when the event kind, without its object and array possibilities, still
\* has a bytes, integer, float, boolean, timestamp, regex or null possibility,
\* the result has none of them at the top level and has an object possibility
\* whose `message` field contains the residual; when there is no such residual
\* the definition is returned unchanged.
C12_PromoteResidual ==
    (schema # <<>> /\ schema.moved # <<>>) =>
        IF Residual(schema.input.event_kind).prims \cap Scalars # {}
        THEN /\ schema.moved[1].event_kind.prims \cap Scalars = {}
             /\ schema.moved[1].event_kind.obj # <<>>
             /\ Residual(schema.input.event_kind).prims
                   \subseteq MessageKind(schema.moved[1].event_kind).prims
        ELSE schema.moved[1] = schema.input

\* An event kind that may be undefined or an object, and no scalar: the helper
\* wraps `undefined` into `message` and the fields of the object become optional.
C12_Witness ==
    /\ schema # <<>>
    /\ schema.input.event_kind =
          KUnion(KUndefined, KFields(Put(OneField(message_key, KInteger), "other", KBytes)))
    /\ schema.moved # <<>>
    /\ schema.moved[1] # schema.input
    /\ "undefined" \in schema.moved[1].event_kind.obj[1].known["other"].prims

\* The definition has an object possibility with a known `message` field and a
\* scalar possibility beside it, and the helper has been applied.
MessageAndScalar ==
    /\ schema # <<>>
    /\ schema.moved # <<>>
    /\ schema.input.event_kind.obj # <<>>
    /\ Has(schema.input.event_kind.obj[1].known, message_key)
    /\ schema.input.event_kind.prims \cap Scalars # {}

\* The fields the object of the input has besides `message`.
OtherFields == DOMAIN schema.input.event_kind.obj[1].known \ {message_key}

\* C13 as stated: on a kind that is an object with a `message` field of kind K1
\* and also a scalar K2, the result's `message` field is K1 | K2 and the other
\* fields of the object keep their kinds.
C13_MessageUnionOthersKept ==
    MessageAndScalar =>
        /\ schema.moved[1].event_kind.obj[1].known[message_key] =
              KUnion(schema.input.event_kind.obj[1].known[message_key],
                     Residual(schema.input.event_kind))
        /\ \A f \in OtherFields :
              schema.moved[1].event_kind.obj[1].known[f] =
                  schema.input.event_kind.obj[1].known[f]

\* C13, amended: the result's `message` field is K1 | K2, neither lost; every
\* other field of the object keeps its kind and becomes optional (its kind
\* gains `undefined`), the wrapped scalar being an object without that field.
C13_MessageUnion ==
    MessageAndScalar =>
        /\ schema.moved[1].event_kind.obj[1].known[message_key] =
              KUnion(schema.input.event_kind.obj[1].known[message_key],
                     Residual(schema.input.event_kind))
        /\ DOMAIN schema.moved[1].event_kind.obj[1].known =
              DOMAIN schema.input.event_kind.obj[1].known
        /\ \A f \in OtherFields :
              schema.moved[1].event_kind.obj[1].known[f] =
                  KUnion(schema.input.event_kind.obj[1].known[f], KUndefined)

C13_Witness ==
    /\ MessageAndScalar
    /\ schema.input.event_kind =
          KUnion(KBytes, KFields(Put(OneField(message_key, KInteger), "other", KBytes)))
    /\ schema.moved[1].event_kind =
          KFields(Put(OneField(message_key, KUnion(KInteger, KBytes)),
                      "other", KUnion(KBytes, KUndefined)))

\* The known fields of the object possibility of a kind.
KnownFields(k) == IF k.obj = <<>> THEN EmptyMap ELSE k.obj[1].known

\* C14: with the primary definition of a first transform, whose script sets
\* `thing`, as the only input of a second one, whose script sets
\* `thang = .thing`, the primary definition of the second has both fields,
\* `thang` with the kind of `thing`, and every other field of the original input
\* definition with its kind unchanged.
C14_ProjectionComposes ==
    (schema # <<>> /\ schema.piped # <<>>) =>
        LET in == KnownFields(schema.input.event_kind)
            one == KnownFields(schema.piped[1].outputs1.event_kind)
            two == KnownFields(schema.piped[1].outputs2.event_kind)
        IN  /\ Has(one, "thing") /\ one["thing"] = KBytes
            /\ Has(two, "thing") /\ two["thing"] = one["thing"]
            /\ Has(two, "thang") /\ two["thang"] = one["thing"]
            /\ DOMAIN two = (DOMAIN in) \cup {"thing", "thang"}
            /\ \A f \in DOMAIN in : two[f] = in[f]
            /\ schema.input.event_kind.obj # <<>> =>
                  schema.piped[1].outputs2.event_kind.obj[1].unknown =
                      schema.input.event_kind.obj[1].unknown

C14_Witness ==
    /\ schema # <<>>
    /\ schema.piped # <<>>
    /\ schema.input.event_kind =
          KFields(Put(OneField(message_key, KInteger), "other", KBytes))
    /\ schema.piped[1].outputs2.event_kind =
          KFields([f \in {message_key, "other", "thing", "thang"} |->
                      IF f = message_key THEN KInteger ELSE KBytes])

\* The primary definitions outputs() returned, by input.
PrimaryDefinitions == ports[1].outputs[1].definitions

\* The input definition outputs() used for `id`: the last one of that id.
InputOf(id) ==
    ports[1].inputs[CHOOSE i \in 1..Len(ports[1].inputs) :
                        /\ ports[1].inputs[i].id = id
                        /\ \A j \in (i + 1)..Len(ports[1].inputs) :
                               ports[1].inputs[j].id # id].definition

\* The event kind the compiler leaves for the script compiled by outputs().
FinalEventKind ==
    FinalTypeState(CompileVrlProgram(config, ports[1].fileRead).program[1],
                   MergeAll([i \in 1..Len(ports[1].inputs) |->
                                ports[1].inputs[i].definition], 1)).target_kind

\* C15: in every primary definition outputs() returns, every meaning points at
\* a path that has a defined kind, hence not `never`, in the definition's final
\* event kind (after flattening and promotion); and a meaning of the input whose
\* path has no such kind in the final type state of the script is not carried
\* over.
C15_MeaningsPointAtFields ==
    (ports # <<>> /\ ~ports[1].panicked) =>
        \A id \in DOMAIN PrimaryDefinitions :
            /\ \A m \in DOMAIN PrimaryDefinitions[id].meanings :
                  PrimaryDefinitions[id].meanings[m] # <<>> =>
                      LET at == KAt(PrimaryDefinitions[id].event_kind,
                                    PrimaryDefinitions[id].meanings[m][1])
                      IN  ContainsAnyDefined(at) /\ at # KNever
            /\ OutputsCompiled =>
                  \A m \in DOMAIN InputOf(id).meanings :
                      (/\ InputOf(id).meanings[m] # <<>>
                       /\ ~ContainsAnyDefined(KAt(FinalEventKind, InputOf(id).meanings[m][1])))
                      => ~(/\ Has(PrimaryDefinitions[id].meanings, m)
                           /\ PrimaryDefinitions[id].meanings[m] = InputOf(id).meanings[m])

\* The script replaces the event by `.events`: `hello` is gone, and with it the
\* meaning that pointed at it.
C15_Witness ==
    /\ ports # <<>>
    /\ ports[1].inputs = << InputDefinition("in", ExactInput) >>
    /\ OutputsCompiled
    /\ CompileVrlProgram(config, ports[1].fileRead).program[1] = FanoutScript
    /\ PrimaryDefinitions["in"].event_kind = KFields(OneField(message_key, KBytes))
    /\ ~Has(PrimaryDefinitions["in"].meanings, "message")

\* C16: every event pushed to the primary output, by the success path (each
\* event of a fan-out included) or by failure forwarding, carries the primary
\* schema definition of the instance, and every event pushed to `dropped`
\* carries its dropped schema definition, whatever the inbound event carried.
C16_OutputsCarryInstanceSchema ==
    remap # <<>> =>
        /\ \A i \in 1..Len(primary) :
               primary[i].schema = remap[1].default_schema_definition
        /\ \A i \in 1..Len(dropped) :
               dropped[i].schema = remap[1].dropped_schema_definition

\* A failed event rerouted to `dropped`: it came with the upstream definition
\* and leaves with the dropped definition of the instance.
C16_Witness ==
    /\ result \in {"error", "abort"}
    /\ inbound[1].schema = "upstream"
    /\ Len(dropped) = 1
    /\ dropped[1].schema = "test_dropped"
    /\ remap[1].default_schema_definition = "test_default"

\* The run of the last call failed, and the drop flag of its outcome is set.
FailedAndDropped ==
    /\ result \in {"error", "abort"}
    /\ DropFlag(remap[1], result)

\* C17: when reroute_dropped is false nothing is pushed to the `dropped` port,
\* whatever the event, the outcome and the drop flags; and a failed event whose
\* drop flag is set then produces no output at all.
C17_NoRerouteNoDropped ==
    (remap # <<>> /\ ~remap[1].reroute_dropped) =>
        /\ dropped = <<>>
        /\ FailedAndDropped => primary = <<>>

\* An abort with drop_on_abort set and no rerouting: the copy made in case of a
\* runtime error is discarded, and no port receives anything.
C17_Witness ==
    /\ remap # <<>>
    /\ ~remap[1].reroute_dropped
    /\ result = "abort"
    /\ remap[1].drop_on_abort
    /\ ~remap[1].drop_on_error
    /\ copied
    /\ primary = <<>>
    /\ dropped = <<>>
    /\ emitted = <<[name |-> "RemapMappingAbort", error |-> "", event_dropped |-> TRUE]>>

\* The value annotate_dropped gives each of the four tags of a metric.
DroppedTagValue(tag) ==
    CASE tag = metadata_key \o ".dropped.reason" -> Bytes(result)
      [] tag = metadata_key \o ".dropped.component_id" ->
           Bytes(IF remap[1].component_key = <<>> THEN "" ELSE remap[1].component_key[1])
      [] tag = metadata_key \o ".dropped.component_type" -> Bytes("remap")
      [] tag = metadata_key \o ".dropped.component_kind" -> Bytes("transform")

\* C18: a metric on the dropped output has the four tags
\* <metadata-key>.dropped.{reason, component_id, component_type, component_kind}
\* set to the reason and the component's identity, no tag for the message and
\* no other new tag; every other tag it came with, its name, its kind and the
\* rest of it are as they were.
C18_MetricTags ==
    \A i \in 1..Len(dropped) :
        inbound[1].kind = "Metric" =>
            LET d == dropped[i]
                o == inbound[1]
            IN  /\ DOMAIN d.value.o = (DOMAIN o.value.o) \cup DroppedTags
                /\ \A tag \in DroppedTags : d.value.o[tag] = DroppedTagValue(tag)
                /\ ~Has(d.value.o, metadata_key \o ".dropped.message")
                /\ \A k \in (DOMAIN o.value.o) \ DroppedTags : d.value.o[k] = o.value.o[k]
                /\ [d EXCEPT !.value = o.value, !.schema = o.schema] = o

\* A metric that came with the tag `hello` and a reason tag of an earlier stage:
\* it leaves with `hello` as it was and the reason of this stage.
C18_Witness ==
    /\ Len(dropped) = 1
    /\ inbound[1].kind = "Metric"
    /\ Has(inbound[1].value.o, metadata_key \o ".dropped.reason")
    /\ inbound[1].value.o[metadata_key \o ".dropped.reason"] = Bytes("earlier")
    /\ dropped[1].value.o[metadata_key \o ".dropped.reason"] = Bytes("abort")
    /\ dropped[1].value.o["hello"] = Bytes("goodbye")
    /\ dropped[1].name = "counter"
    /\ Cardinality(DOMAIN dropped[1].value.o) = 5

\* C19: a log on the dropped output carries the diagnostic payload in its body
\* at <metadata-key>.dropped when the log is in the Legacy namespace, and in
\* its metadata at vector.dropped, its body untouched, when the log is in the
\* Vector namespace; nothing but the namespace of the event decides.
C19_LogPayloadLocation ==
    \A i \in 1..Len(dropped) :
        inbound[1].kind = "Log" =>
            LET d == dropped[i]
                o == inbound[1]
                payload == DroppedData(remap[1], result, fault[1])
            IN  IF o.ns = "Legacy"
                THEN /\ GetPath(d.value, <<metadata_key, "dropped">>) = <<payload>>
                     /\ d.metadata = o.metadata
                ELSE /\ GetPath(d.metadata, <<"vector", "dropped">>) = <<payload>>
                     /\ d.value = o.value
                     /\ GetPath(d.value, <<metadata_key, "dropped">>) = <<>>

\* A log of the Vector namespace on the dropped output: the payload is next to
\* `source_type` under `vector` in the metadata.
C19_Witness ==
    /\ Len(dropped) = 1
    /\ inbound[1].kind = "Log"
    /\ inbound[1].ns = "Vector"
    /\ GetPath(dropped[1].metadata, <<"vector", "dropped", "reason">>) = <<Bytes("abort")>>
    /\ GetPath(dropped[1].metadata, <<"vector", "source_type">>) = <<Bytes("file")>>
    /\ dropped[1].value = inbound[1].value

\* What the instance as built, its runner untouched by any event, does with `event`.
UntouchedCall(event) == TransformCall(remap[1], EmptyMap, event)

\* The last call went as on an instance that saw no event before.
AsIfFirst ==
    /\ result = UntouchedCall(inbound[1]).result
    /\ primary = UntouchedCall(inbound[1]).primary
    /\ dropped = UntouchedCall(inbound[1]).dropped
    /\ emitted = UntouchedCall(inbound[1]).emitted
    /\ warned = UntouchedCall(inbound[1]).warned
    /\ runtime = UntouchedCall(inbound[1]).runtime

\* C20: after an event whose run aborted or failed, under any drop and reroute
\* policy and also when no copy was there to forward, the instance takes the
\* next event and routes it as an instance that never saw the failed one would;
\* and no step changes the flags, the program or the schema definitions of the
\* instance.
C20_FailureLeavesInstanceAsBuilt ==
    /\ [](previous \in {"error", "abort"} => AsIfFirst)
    /\ [][remap # <<>> => (remap' = remap /\ config' = config /\ context' = context)]_vars

\* An event lost on the branch without a copy, then an event that succeeds on
\* the same instance and reaches the primary output.
C20_Witness ==
    /\ calls = 2
    /\ previous \in {"error", "abort"}
    /\ ~copied
    /\ remap[1].reroute_dropped
    /\ result = "ok"
    /\ Len(primary) = 1
    /\ GetPath(primary[1].value, <<"foo">>) # <<>>

\* The last call ran the script that does nothing.
NoopCall == remap # <<>> /\ remap[1].program = NoopScript /\ calls >= 1

\* C21 as stated: for a log, a metric or a trace, the script that changes
\* nothing gives exactly one event on the primary output, its body the body of
\* the inbound event, and nothing on the dropped output.
C21_NoopKeepsBody ==
    NoopCall =>
        /\ Len(primary) = 1
        /\ primary[1].kind = inbound[1].kind
        /\ primary[1].value = inbound[1].value
        /\ dropped = <<>>

\* C21, amended: the script that changes nothing gives exactly one event of the
\* inbound kind on the primary output and nothing on the dropped output; its
\* body is the inbound body when that is an object, and the inbound body under
\* the message key when it is a scalar.
C21_NoopKeepsBodyUpToWrapping ==
    NoopCall =>
        /\ Len(primary) = 1
        /\ primary[1].kind = inbound[1].kind
        /\ primary[1].value =
              IF inbound[1].value.t = "object" THEN inbound[1].value
              ELSE Object(OneField(message_key, inbound[1].value))
        /\ [primary[1] EXCEPT !.value = inbound[1].value, !.schema = inbound[1].schema]
              = inbound[1]
        /\ dropped = <<>>

\* A metric through the script that changes nothing.
C21_Witness ==
    /\ NoopCall
    /\ inbound[1].kind = "Metric"
    /\ Len(primary) = 1
    /\ primary[1].kind = "Metric"
    /\ primary[1].value = inbound[1].value
    /\ primary[1].value.o["hello"] = Bytes("world")

\* The time zone the instance is to use: the config's when it names one, the
\* global one of the build context otherwise.
ConfiguredTimezone ==
    IF config.timezone # <<>> THEN config.timezone[1] ELSE context.timezone

\* C22: the time zone the instance hands to every run of the script is the one
\* of the transform's config when it is set and the global one of the build
\* context otherwise; it is set when the instance is built and is the same for
\* every event.
C22_TimezoneOfConfigElseGlobal ==
    remap # <<>> =>
        /\ remap[1].timezone = ConfiguredTimezone
        /\ (/\ calls >= 1
            /\ remap[1].program = TimestampScript
            /\ GetPath(inbound[1].value, <<"timestamp">>) # <<>>)
           => /\ result = "ok"
              /\ Len(primary) = 1
              /\ GetPath(primary[1].value, <<"timestamp">>) =
                    << Timestamp(GetPath(inbound[1].value, <<"timestamp">>)[1].s,
                                 ConfiguredTimezone) >>

\* The config names Los Angeles, the global options UTC: the second event of the
\* instance is read in the time zone of the config (remap_timezone_override).
C22_Witness ==
    /\ calls = 2
    /\ config.timezone = <<"America/Los_Angeles">>
    /\ context.timezone = "Etc/UTC"
    /\ result = "ok"
    /\ Len(primary) = 1
    /\ GetPath(primary[1].value, <<"timestamp">>) =
          << Timestamp("2022-12-27 00:00:00", "America/Los_Angeles") >>

\* The local variables the script of the last call held when its run ended.
LocalsAtEnd ==
    Resolve(EmptyMap, VrlTargetNew(inbound[1]), remap[1].program, inbound[1].kind,
            remap[1].timezone).locals

\* C23: the scratch state of the runtime is empty before the first event and
\* after every call of transform, the run having succeeded, aborted or failed.
C23_RuntimeClearedAfterEveryRun == runtime = EmptyMap

\* A run that stored `sentinel` in a local variable and then aborted: the
\* runtime is empty after the call all the same.
C23_Witness ==
    /\ calls >= 1
    /\ result = "abort"
    /\ LocalsAtEnd # EmptyMap
    /\ runtime = EmptyMap

\* C24: a successful run on a metric pushes exactly one event to the primary
\* output, a metric; more than one event comes from one inbound event only when
\* that event is a log or a trace; and every event pushed has the kind of the
\* inbound event.
C24_MetricsNeverFanOut ==
    result = "ok" =>
        /\ inbound[1].kind = "Metric" => Len(primary) = 1
        /\ Len(primary) > 1 => inbound[1].kind \in {"Log", "Trace"}
        /\ \A i \in 1..Len(primary) : primary[i].kind = inbound[1].kind

\* A metric through the script that replaces the event by `.events`, which
\* splits a log in two: one metric comes out.
C24_Witness ==
    /\ result = "ok"
    /\ remap[1].program = FanoutScript
    /\ inbound[1].kind = "Metric"
    /\ Len(primary) = 1
    /\ primary[1].kind = "Metric"
    /\ primary[1].name = "counter"

\* The run of the last call failed and transform had kept no copy of the event.
FailedWithoutCopy == result \in {"error", "abort"} /\ ~copied

\* C25: when the run fails and no copy of the event was kept, nothing is pushed
\* to any output, so the event the script changed is not emitted, and the call
\* returns; a warning is logged exactly when the policy of the branch that fired
\* asked to forward or to reroute (its drop flag unset, or reroute_dropped set).
C25_NoCopyDropsAndWarns ==
    FailedWithoutCopy =>
        /\ primary = <<>>
        /\ dropped = <<>>
        /\ warned = (~DropFlag(remap[1], result) \/ remap[1].reroute_dropped)
        /\ Len(emitted) = 1

\* A runtime error the flags of the program did not announce, the policy being
\* to forward: the warning is logged and both outputs stay empty.
C25_Witness ==
    /\ FailedWithoutCopy
    /\ result = "error"
    /\ ~remap[1].drop_on_error
    /\ ~remap[1].info.fallible
    /\ warned
    /\ primary = <<>>
    /\ dropped = <<>>

\* `k` is an array and nothing else, with no element at a known index and every
\* element an object of one kind with exactly its known fields.
ArrayOfOneObject(k) ==
    /\ k.prims = {} /\ k.obj = <<>> /\ k.arr # <<>>
    /\ k.arr[1].known = EmptyMap
    /\ ~k.arr[1].unknown.infinite
    /\ LET element == k.arr[1].unknown.exact[1]
       IN  element.prims = {} /\ element.arr = <<>> /\ element.obj # <<>>

\* C26: merge_array_definitions on a kind that is only an array whose elements
\* all have one object kind {f1: K1, f2: K2} returns that object kind exactly:
\* no field gains undefined, no array possibility is left, and the rest of the
\* definition is as it was.
C26_ArrayOfOneObjectIsThatObject ==
    (schema # <<>> /\ schema.merged # <<>> /\ ArrayOfOneObject(schema.input.event_kind)) =>
        /\ schema.merged[1].event_kind = schema.input.event_kind.arr[1].unknown.exact[1]
        /\ schema.merged[1].event_kind.arr = <<>>
        /\ schema.merged[1] =
              [schema.input EXCEPT !.event_kind = schema.merged[1].event_kind]

\* The array of {carrot: bytes, potato: integer} of the test.
C26_Witness ==
    /\ schema # <<>>
    /\ schema.input.event_kind = KArrayOf(ObjectCarrotPotato)
    /\ schema.merged # <<>>
    /\ schema.merged[1].event_kind = ObjectCarrotPotato
    /\ "undefined" \notin schema.merged[1].event_kind.obj[1].known["carrot"].prims

\* `k` can be an array with an element kind for each of its indices and no
\* element beyond them.
ArrayWithIndices(k) ==
    /\ k.arr # <<>>
    /\ k.arr[1].known # EmptyMap
    /\ k.arr[1].unknown = UExact(KUndefined)

\* The element kinds of the array possibility of `k`.
ElementKinds(k) == { k.arr[1].known[i] : i \in DOMAIN k.arr[1].known }

\* The objects a value of kind `k` can be after the split: the object `k` can
\* be and the objects its elements can be.
ObjectsOf(k) ==
    { k.obj[1] : x \in IF k.obj = <<>> THEN {} ELSE {1} }
        \cup { e.obj[1] : e \in { x \in ElementKinds(k) : x.obj # <<>> } }

\* The kind `c` has for the field `f`, known or not.
FieldKind(c, f) == IF Has(c.known, f) THEN c.known[f] ELSE UnknownKind(c)

\* C27: merge_array_definitions on a kind that can be an array with element
\* kinds at its indices returns a kind without the array possibility that keeps
\* every other possibility of the input and has, at the top level, every
\* possibility of every element; its object possibility has the fields of the
\* input's object and of the elements' objects, each with every kind it has in
\* any of them, and possibly undefined exactly when some of those objects lacks
\* it or has it possibly undefined.  A definition whose kind cannot be an array
\* comes back unchanged.
C27_MergeArrayWithIndices ==
    (schema # <<>> /\ schema.merged # <<>>) =>
        LET k == schema.input.event_kind
            m == schema.merged[1].event_kind
        IN  /\ k.arr = <<>> => schema.merged[1] = schema.input
            /\ ArrayWithIndices(k) =>
                 /\ schema.merged[1] = [schema.input EXCEPT !.event_kind = m]
                 /\ m.prims = k.prims \cup UNION { e.prims : e \in ElementKinds(k) }
                 /\ m.arr = <<>>
                 /\ (m.obj = <<>>) = (ObjectsOf(k) = {})
                 /\ m.obj # <<>> =>
                      /\ DOMAIN m.obj[1].known = UNION { DOMAIN c.known : c \in ObjectsOf(k) }
                      /\ \A f \in DOMAIN m.obj[1].known :
                           /\ m.obj[1].known[f].prims =
                                 UNION { FieldKind(c, f).prims : c \in ObjectsOf(k) }
                           /\ ("undefined" \in m.obj[1].known[f].prims) =
                                 (\E c \in ObjectsOf(k) :
                                     "undefined" \in FieldKind(c, f).prims)

\* bytes, or an object {message, other}, or an array [integer, {peas: bytes}]:
\* the result is bytes or integer or an object of three optional fields.
C27_Witness ==
    /\ schema # <<>>
    /\ schema.merged # <<>>
    /\ schema.input.event_kind =
          [prims |-> {"bytes"},
           obj |-> <<CollectionFrom(Put(OneField(message_key, KInteger), "other", KBytes))>>,
           arr |-> KArrayLiteral(<<KInteger, KFields(OneField("peas", KBytes))>>).arr]
    /\ schema.merged[1].event_kind =
          [prims |-> {"bytes", "integer"},
           obj |-> <<CollectionFrom(
                       Put(Put(OneField(message_key, KUnion(KInteger, KUndefined)),
                               "other", KUnion(KBytes, KUndefined)),
                           "peas", KUnion(KBytes, KUndefined)))>>,
           arr |-> <<>>]

\* `k` can be an array none of whose elements can itself be an array.
ArrayOfFlatElements(k) ==
    /\ k.arr # <<>>
    /\ ~k.arr[1].unknown.infinite
    /\ k.arr[1].unknown.exact[1].arr = <<>>
    /\ \A i \in DOMAIN k.arr[1].known : k.arr[1].known[i].arr = <<>>

\* The scalars a value of kind `k` or an element of its array can be.
ScalarsOf(k) ==
    (k.prims \cup k.arr[1].unknown.exact[1].prims
             \cup UNION { k.arr[1].known[i].prims : i \in DOMAIN k.arr[1].known })
        \cap Scalars

\* C28: outputs() flattens the array of a definition before it promotes the
\* scalars, so a kind that is an array with scalar elements, or an array of
\* objects or a scalar, projects to an object kind: no scalar at the top level,
\* no array, and the scalars of the elements and of the input under the message
\* field.
C28_FlattenBeforePromote ==
    (schema # <<>> /\ schema.projected # <<>>
        /\ ArrayOfFlatElements(schema.input.event_kind)) =>
        LET k == schema.input.event_kind
            q == schema.projected[1].event_kind
        IN  /\ q.prims \cap Scalars = {}
            /\ q.arr = <<>>
            /\ ScalarsOf(k) # {} =>
                 /\ q.obj # <<>>
                 /\ ScalarsOf(k) \subseteq FieldKind(q.obj[1], message_key).prims

\* An array [integer, {peas: bytes}]: the integer of the first element is under
\* `message`, next to `peas`.
C28_Witness ==
    /\ schema # <<>>
    /\ schema.projected # <<>>
    /\ schema.input.event_kind = KArrayLiteral(<<KInteger, KFields(OneField("peas", KBytes))>>)
    /\ schema.projected[1].event_kind =
          KFields(Put(OneField(message_key, KUnion(KInteger, KUndefined)),
                      "peas", KUnion(KBytes, KUndefined)))

\* The meanings the script compiled by outputs() establishes, in order.
ScriptMeanings ==
    FinalTypeState(CompileVrlProgram(config, ports[1].fileRead).program[1],
                   MergeAll([i \in 1..Len(ports[1].inputs) |->
                                ports[1].inputs[i].definition], 1)).meanings

\* The identifiers among them.
ScriptMeaningIds == { ScriptMeanings[i].id : i \in 1..Len(ScriptMeanings) }

\* The path the script binds `m` to: that of its last statement about `m`.
ScriptPathOf(m) ==
    ScriptMeanings[CHOOSE i \in 1..Len(ScriptMeanings) :
                      /\ ScriptMeanings[i].id = m
                      /\ \A j \in (i + 1)..Len(ScriptMeanings) : ScriptMeanings[j].id # m].path

\* C29: in the primary definition of each input, a meaning the script
\* establishes is bound to the path of the script, also when the input binds it
\* to another path that is still there; a meaning only the input has, its path
\* still resolvable, keeps the path of the input.
C29_ScriptMeaningWins ==
    (ports # <<>> /\ ~ports[1].panicked /\ OutputsCompiled) =>
        \A id \in DOMAIN PrimaryDefinitions :
            /\ \A m \in ScriptMeaningIds :
                  /\ Has(PrimaryDefinitions[id].meanings, m)
                  /\ PrimaryDefinitions[id].meanings[m] = <<ScriptPathOf(m)>>
            /\ \A m \in (DOMAIN InputOf(id).meanings) \ ScriptMeaningIds :
                  (/\ InputOf(id).meanings[m] # <<>>
                   /\ ContainsAnyDefined(KAt(FinalEventKind, InputOf(id).meanings[m][1])))
                  => /\ Has(PrimaryDefinitions[id].meanings, m)
                     /\ PrimaryDefinitions[id].meanings[m] = InputOf(id).meanings[m]

\* The input binds `service` to `hello`, the script to `foo`: the output has
\* `service` at `foo`, and `message`, which only the input has, still at `hello`.
C29_Witness ==
    /\ ports # <<>>
    /\ ports[1].inputs = << InputDefinition("in", ExactInput) >>
    /\ OutputsCompiled
    /\ ScriptMeanings = << [id |-> "service", path |-> <<"foo">>] >>
    /\ ExactInput.meanings["service"] = << <<"hello">> >>
    /\ ContainsAnyDefined(KAt(PrimaryDefinitions["in"].event_kind, <<"hello">>))
    /\ PrimaryDefinitions["in"].meanings["service"] = << <<"foo">> >>
    /\ PrimaryDefinitions["in"].meanings["message"] = << <<"hello">> >>

\* The dropped definitions outputs() returned, by input.
DroppedDefinitions == ports[1].outputs[2].definitions

PayloadFields == {"reason", "message", "component_id", "component_type", "component_kind"}

\* The input definition with the payload under the metadata field of the event,
\* and with the payload at the root of the metadata.
WithLegacyPayload(input) ==
    [input EXCEPT
        !.event_kind = KInsert(@, <<metadata_key>>,
                               KObject(CollectionFrom([f \in PayloadFields |-> KBytes]))),
        !.meanings = Put(@, "metadata", << <<metadata_key>> >>)]

WithVectorPayload(input) ==
    [input EXCEPT !.metadata_kind =
        KInsert(KInsert(KInsert(KInsert(KInsert(@,
            <<"reason">>, KBytes), <<"message">>, KBytes), <<"component_id">>, KBytes),
            <<"component_type">>, KBytes), <<"component_kind">>, KBytes)]

\* A definition of body `never` merged with those, for the namespaces of the input.
NeverMergedWithPayload(input) ==
    LET never == NewWithDefaultMetadata(KNever, input.log_namespaces)
        legacy == IF "Legacy" \in input.log_namespaces
                  THEN DefinitionMerge(never, WithLegacyPayload(input)) ELSE never
    IN  IF "Vector" \in input.log_namespaces
        THEN DefinitionMerge(legacy, WithVectorPayload(input)) ELSE legacy

\* The dropped definitions outputs() returns for the same inputs when the
\* configuration names the script `s`.
DroppedDefinitionsWith(s) ==
    Outputs([config EXCEPT !.source = <<s>>, !.file = <<>>], ports[1].inputs, "unread")

\* C30: the dropped definition of each input is a definition of body `never`
\* merged, for each namespace of the input, with the input definition extended
\* by the five payload fields of kind bytes, under the metadata field of the
\* event for Legacy and at the root of the metadata for Vector (then flattened
\* and promoted like every definition); bytes is thus a kind of each payload
\* field there, and the definition is the same for every script, compiling or
\* not.
C30_DroppedDefinition ==
    (ports # <<>> /\ ~ports[1].panicked /\ config.reroute_dropped) =>
        /\ \A id \in DOMAIN DroppedDefinitions :
              LET d == DroppedDefinitions[id]
              IN  /\ d = FlattenThenPromote(NeverMergedWithPayload(InputOf(id)))
                  /\ "Legacy" \in InputOf(id).log_namespaces =>
                        \A f \in PayloadFields :
                            "bytes" \in KAt(d.event_kind, <<metadata_key, f>>).prims
                  /\ "Vector" \in InputOf(id).log_namespaces =>
                        \A f \in PayloadFields :
                            "bytes" \in KAt(d.metadata_kind, <<f>>).prims
        /\ \A s \in Scripts :
              ~DroppedDefinitionsWith(s).panicked =>
                  DroppedDefinitionsWith(s).ports[2].definitions = DroppedDefinitions

\* A script that does not compile: the primary definition is `never`, the
\* dropped one still declares the payload of a legacy log.
C30_Witness ==
    /\ ports # <<>>
    /\ config.reroute_dropped
    /\ ~OutputsCompiled
    /\ ports[1].inputs = << InputDefinition("in", LegacyInput) >>
    /\ PrimaryDefinitions["in"].event_kind = KNever
    /\ KAt(DroppedDefinitions["in"].event_kind, <<metadata_key, "reason">>) = KBytes
    /\ KAt(DroppedDefinitions["in"].event_kind, <<"hello">>) = KBytes

\* The field `f` of the payload an annotated event carries: <<value>>, or <<>>.
PayloadField(e, f) ==
    IF e.kind = "Metric"
    THEN IF Has(e.value.o, metadata_key \o ".dropped." \o f)
         THEN <<e.value.o[metadata_key \o ".dropped." \o f]>> ELSE <<>>
    ELSE GetPath(PayloadHolder(e), PayloadPath(e) \o <<f>>)

\* The component key as the payload of an event of kind `kind` carries it: the
\* key; without a key, null in an object and the empty string in a tag.
ComponentIdValue(kind) ==
    IF remap[1].component_key # <<>> THEN Bytes(remap[1].component_key[1])
    ELSE IF kind = "Metric" THEN Bytes("") ELSE Null

\* C31: the payload of a rerouted event has reason "abort" exactly when the run
\* ended in Terminate::Abort and "error" exactly when it ended in
\* Terminate::Error, component_type "remap", component_kind "transform" and
\* component_id the component key of the instance.
C31_PayloadIdentity ==
    \A i \in 1..Len(dropped) :
        /\ result \in {"abort", "error"}
        /\ PayloadField(dropped[i], "reason") = <<Bytes(result)>>
        /\ PayloadField(dropped[i], "component_type") = <<Bytes("remap")>>
        /\ PayloadField(dropped[i], "component_kind") = <<Bytes("transform")>>
        /\ PayloadField(dropped[i], "component_id") = <<ComponentIdValue(dropped[i].kind)>>

\* An aborted legacy log rerouted by the component `remapper`.
C31_Witness ==
    /\ result = "abort"
    /\ Len(dropped) = 1
    /\ dropped[1].kind = "Log" /\ dropped[1].ns = "Legacy"
    /\ GetPath(dropped[1].value, <<metadata_key, "dropped", "reason">>) = <<Bytes("abort")>>
    /\ GetPath(dropped[1].value, <<metadata_key, "dropped", "component_id">>)
          = <<Bytes("remapper")>>

\* C32: a trace on the dropped output has the payload object itself at its
\* top-level metadata key, not under a `dropped` field of it, and every other
\* top-level field, and the rest of the event, as the inbound trace had them.
C32_TracePayloadAtMetadataKey ==
    \A i \in 1..Len(dropped) :
        inbound[1].kind = "Trace" =>
            LET d == dropped[i]
                o == inbound[1]
            IN  /\ GetPath(d.value, <<metadata_key>>) =
                      <<DroppedData(remap[1], result, fault[1])>>
                /\ GetPath(d.value, <<metadata_key, "dropped">>) = <<>>
                /\ DOMAIN d.value.o = (DOMAIN o.value.o) \cup {metadata_key}
                /\ \A k \in (DOMAIN o.value.o) \ {metadata_key} : d.value.o[k] = o.value.o[k]
                /\ [d EXCEPT !.value = o.value, !.schema = o.schema] = o

\* An aborted trace with the fields `hello` and `sentinel`.
C32_Witness ==
    /\ Len(dropped) = 1
    /\ inbound[1].kind = "Trace"
    /\ result = "abort"
    /\ GetPath(dropped[1].value, <<metadata_key, "reason">>) = <<Bytes("abort")>>
    /\ GetPath(dropped[1].value, <<"sentinel">>) = <<Bytes("bar")>>
    /\ GetPath(dropped[1].value, <<"hello">>) = <<Bytes("goodbye")>>

\* The definition has no array and no scalar possibility at the top level and
\* each of its meanings points at a field that may be defined.
ObjectOnly(def) ==
    /\ def.event_kind.prims = {}
    /\ def.event_kind.arr = <<>>
    /\ \A m \in DOMAIN def.meanings :
          /\ def.meanings[m] # <<>>
          /\ ContainsAnyDefined(KAt(def.event_kind, def.meanings[m][1]))

C34_AtMostOneOutput ==
    /\ dropped # <<>> => (primary = <<>> /\ Len(dropped) = 1 /\ result # "ok")
    /\ result = "ok" => dropped = <<>>
    /\ (inbound # <<>> /\ result \in {"error", "abort"}) =>
          /\ Len(primary) + Len(dropped) <= 1
          /\ \A i \in 1..Len(primary) : Unmodified(primary[i], inbound[1])

\* A script that changed the target and then failed, the event rerouted alone.
C34_Witness ==
    /\ inbound # <<>>
    /\ remap # <<>>
    /\ remap[1].program = OverwriteScript
    /\ result = "error"
    /\ primary = <<>>
    /\ Len(dropped) = 1

\* What a replica pushes, emits and logs when it processes `stream` alone, one
\* event after the other, from the runtime `rt`.
RECURSIVE AloneOutputs(_, _, _, _)
AloneOutputs(r, rt, stream, i) ==
    IF i > Len(stream) THEN <<>>
    ELSE LET t == TransformCall(r, rt, stream[i])
         IN  <<OutputsOf(t)>> \o AloneOutputs(r, t.runtime, stream, i + 1)

\* C35: a clone of the instance has the program, flags and schema definitions
\* of the instance and a runtime of its own, which no other replica and not the
\* instance uses and which is empty whenever the clone is not in the middle of a
\* run; and however the runs of the replicas interleave, what each replica has
\* put out for the events it has processed is what it puts out when it
\* processes the same events alone.
C35_ReplicasIndependent ==
    \A i \in 1..Len(replicas.tasks) :
        LET task == replicas.tasks[i]
        IN  /\ remap # <<>> /\ task.remap = remap[1]
            /\ task.runner \in 1..Len(replicas.runtimes)
            /\ \A j \in 1..Len(replicas.tasks) :
                  j # i => replicas.tasks[j].runner # task.runner
            /\ task.pending = <<>> => RuntimeOf(task.runner) = EmptyMap
            /\ Len(task.outputs) = Len(task.stream)
            /\ task.outputs = AloneOutputs(task.remap, EmptyMap, task.stream, 1)

\* Two replicas in the middle of a run at once, one on an event that has the
\* field the script keeps in a local variable and one on an event without it,
\* the first having processed an event before.
C35_Witness ==
    /\ Len(replicas.tasks) = 2
    /\ replicas.tasks[1].remap.program = LocalScript
    /\ replicas.tasks[1].outputs # <<>>
    /\ replicas.tasks[1].pending # <<>>
    /\ replicas.tasks[2].pending # <<>>
    /\ GetPath(replicas.tasks[1].pending[1].event.value, <<"sentinel">>) # <<>>
    /\ GetPath(replicas.tasks[2].pending[1].event.value, <<"sentinel">>) = <<>>
    /\ replicas.runtimes[replicas.tasks[1].runner] # EmptyMap
    /\ replicas.runtimes[replicas.tasks[2].runner] = EmptyMap

\* Where annotate_dropped wrote the payload field `f` of the log `e`, and the
\* part of a definition that describes the part of the event written to.
WrittenPath(e, f) == PayloadPath(e) \o <<f>>

DeclaringKind(d, e) == IF e.ns = "Vector" THEN d.metadata_kind ELSE d.event_kind

\* Where the dropped definition declares the payload field `f` for the
\* namespace of the log `e`.
DeclaredPath(e, f) == IF e.ns = "Vector" THEN <<f>> ELSE <<metadata_key, f>>

\* C36: for a rerouted log, of the Legacy or of the Vector namespace, each
\* payload field is written where the dropped definition of every input of that
\* namespace declares it: the definition declares bytes at the path written,
\* and the event carries the field at the path declared.
C36_PayloadWhereDeclared ==
    (/\ ports # <<>> /\ ~ports[1].panicked /\ config.reroute_dropped
     /\ dropped # <<>> /\ dropped[1].kind = "Log") =>
        \A id \in DOMAIN DroppedDefinitions :
            dropped[1].ns \in InputOf(id).log_namespaces =>
                \A f \in PayloadFields :
                    /\ KAt(DeclaringKind(DroppedDefinitions[id], dropped[1]),
                           WrittenPath(dropped[1], f)) = KBytes
                    /\ GetPath(PayloadHolder(dropped[1]), DeclaredPath(dropped[1], f))
                          = PayloadField(dropped[1], f)
                    /\ PayloadField(dropped[1], f) # <<>>

\* A rerouted legacy log with the reason under `metadata.dropped`, where the
\* dropped definition of its input declares nothing, and nothing under
\* `metadata.reason`, where the definition declares bytes.
C36_Witness ==
    /\ ports # <<>> /\ ~ports[1].panicked /\ config.reroute_dropped
    /\ ports[1].inputs = << InputDefinition("in", LegacyInput) >>
    /\ Len(dropped) = 1
    /\ dropped[1].kind = "Log" /\ dropped[1].ns = "Legacy"
    /\ GetPath(dropped[1].value, <<metadata_key, "dropped", "reason">>) # <<>>
    /\ GetPath(dropped[1].value, <<metadata_key, "reason">>) = <<>>
    /\ KAt(DroppedDefinitions["in"].event_kind, <<metadata_key, "reason">>) = KBytes
    /\ KAt(DroppedDefinitions["in"].event_kind, <<metadata_key, "dropped", "reason">>)
          = KUndefined

\* C37: whatever kind the script leaves, built from scalars, objects and
\* arrays, arrays of arrays included, the event kind of the primary definition
\* outputs() returns has no array possibility and no bytes, integer, float,
\* boolean, timestamp, regex or null possibility at the top level.
C37_NoArrayNoScalarAtTop ==
    (schema # <<>> /\ schema.aborted # <<>>) =>
        /\ schema.aborted[1].alone.event_kind.arr = <<>>
        /\ schema.aborted[1].alone.event_kind.prims \cap Scalars = {}

\* A script result that is an array whose elements may be anything, arrays
\* included: the primary definition keeps an array possibility at the top
\* level, and has no scalar there.
C37_Witness ==
    /\ schema # <<>>
    /\ schema.aborted # <<>>
    /\ schema.projected # <<>>
    /\ schema.input.event_kind = [prims |-> {}, obj |-> <<>>, arr |-> <<CollectionAny>>]
    /\ schema.aborted[1].alone.event_kind.arr # <<>>
    /\ schema.aborted[1].alone.event_kind.prims \cap Scalars = {}
    /\ schema.aborted[1].alone.event_kind = schema.projected[1].event_kind

\* C38: a run that ends in an abort or an error emits exactly one internal
\* event, and emits it before it pushes or warns: RemapMappingAbort with
\* event_dropped = drop_on_abort for an abort, RemapMappingError with the error
\* text and event_dropped = drop_on_error for an error, whether the event is
\* then forwarded, rerouted, dropped or dropped with the no-copy warning; a run
\* that succeeds emits none.
C38_OneInternalEventFirst ==
    (inbound # <<>> /\ remap # <<>>) =>
        LET t == UntouchedCall(inbound[1])
        IN  /\ t.emitted = emitted /\ t.result = result
            /\ result = "ok" => (emitted = <<>> /\ \A i \in 1..Len(t.effects) :
                                                      t.effects[i] # "emit")
            /\ result = "abort" =>
                  emitted = <<[name |-> "RemapMappingAbort", error |-> "",
                               event_dropped |-> remap[1].drop_on_abort]>>
            /\ result = "error" =>
                  emitted = <<[name |-> "RemapMappingError", error |-> fault[1].message,
                               event_dropped |-> remap[1].drop_on_error]>>
            /\ result \in {"abort", "error"} =>
                  /\ t.effects # <<>> /\ t.effects[1] = "emit"
                  /\ \A i \in 2..Len(t.effects) : t.effects[i] # "emit"
                  /\ Len(t.effects) = 1 + Len(primary) + Len(dropped)
                                         + (IF warned THEN 1 ELSE 0)

\* An abort with no copy to forward: the warning path, after the one event.
C38_Witness ==
    /\ inbound # <<>> /\ remap # <<>>
    /\ result = "abort"
    /\ warned
    /\ ~copied
    /\ emitted = <<[name |-> "RemapMappingAbort", error |-> "",
                    event_dropped |-> remap[1].drop_on_abort]>>
    /\ UntouchedCall(inbound[1]).effects = <<"emit", "warn">>

\* An error rerouted to `dropped`, after the one event.
C38_WitnessRerouted ==
    /\ inbound # <<>> /\ remap # <<>>
    /\ result = "error"
    /\ Len(dropped) = 1
    /\ UntouchedCall(inbound[1]).effects = <<"emit", "push_dropped">>

====
